---- MODULE Spec2Model ----
(***************************************************************************)
(* nethelper: a relay server (NetServer) and its client node (NetNode).    *)
(* The server keeps a list of client records and multiplexes them in a     *)
(* single-threaded loop; the node batches envelopes and demultiplexes the  *)
(* frames it receives into per-sender, per-title queues.                   *)
(*                                                                         *)
(* Frames are modelled as records of their decoded fields; a socket read   *)
(* delivers a chunk of whole frames.  Time is the integer part of          *)
(* time.time(), in seconds.                                                *)
(***************************************************************************)
EXTENDS Integers, Sequences, FiniteSets, TLC

VARIABLES
    clients,    \* NetServer.clients: the list of client records
    now,        \* time.time()
    node,       \* one NetNode object
    wire,       \* the node's connection: frames in flight, each way
    app,        \* when the node's application last called process_send / process_recv
    server,     \* the server process: "running", or the exception that ended it
    nodes,      \* two NetNode objects, "host" and "bob", each with its connection
    call,       \* a connect() call in progress: where it stands, and what it returned
    codec       \* a byte stream between one encoder and one inbound buffer

vars == <<clients, now, node, wire, app, server, nodes, call, codec>>

\* ------------------------------------------------------------------ bounds
MaxClients == 2
MaxTime == 6
MaxUnread == 2
MaxHBTime == 12
MaxSend == 3
MaxFragments == 101
MaxWaitTime == 6

\* ------------------------------------------------------- program constants
FRAME_TYPE_AUTH == 1
FRAME_TYPE_DATA == 2
FRAME_TYPE_HEART == 3
FRAME_TYPE_PEERS == 4
FRAME_TYPE_REQ == 5
FRAME_TYPE_SYSM == 6
SERVER_ADDR == 0
UNKNOWN_ADDR == 255
ALL_CLIENTS == 255
FIRST_ADDR == 1
ADDR_STOP == 255
WATCHDOG_TIMEOUT == 5
HEARTBEAT_PERIOD == 1
IN_BUFFER_LIMIT == 102400
RECV_SIZE == 1024
CONNECT_TIMEOUT == 5
REQ_TYPE_DISCONNECT == 0

\* Net.VERSION, and the tag of a frame built by another version
VERSION == "020"
OtherVersion == "019"

\* None, as returned by _get_free_addr and _get_random_name
NoAddr == -1
NoName == "<None>"

\* self.groups: the configured whitelist
groups == {"g", "h"}

\* NetServer._RANDOM_NAMES, after the shuffle
_RANDOM_NAMES == <<"Ant">>

\* ----------------------------------------------------------------- helpers
Remove(s, i) == SubSeq(s, 1, i - 1) \o SubSeq(s, i + 1, Len(s))

Range(s) == {s[k] : k \in 1..Len(s)}

\* ------------------------------------------------------------------ frames
\* The decoded fields of a frame.  name/group carry the JSON object of an
\* AUTH frame (and name the data of a SYSM name frame); data carries the
\* JSON list of a DATA or PEERS frame.
MkFrame(type, dest, sender, name, group, data) ==
    [version |-> VERSION, type |-> type, dest |-> dest, sender |-> sender, meta |-> 0,
     name |-> name, group |-> group, data |-> data]

\* ---------------------------------------------------------- client records
\* The record _accept_connection creates at time t.  A record is known by
\* its place in the client list (its 'ip' and 'sock' are not modelled).
NewClient(t) ==
    [name |-> "", group |-> "", addr |-> UNKNOWN_ADDR,
     inb |-> <<>>, pend |-> 0, outb |-> <<>>, watchDog |-> t]

\* ------------------------------------------------------- handler state
\* While one client's socket is serviced the handler holds the client list
\* and the record being serviced.  pos is the record's place in the list,
\* 0 once disconnect() has removed it (the handler still holds the record).
\* raised names an exception on its way out of the handler, "" for none.
Cur(H) == IF H.pos > 0 THEN H.clients[H.pos] ELSE H.cur

SetCur(H, r) ==
    IF H.pos > 0 THEN [H EXCEPT !.clients[H.pos] = r] ELSE [H EXCEPT !.cur = r]

\* ------------------------------------------------------------- NetServer
\* disconnect(client): `if client in self.clients: self.clients.remove(client)`.
\* i is the record's place in the list, 0 when it is not in the list.
disconnect(cl, i) == IF i > 0 THEN Remove(cl, i) ELSE cl

\* disconnect() of the record the handler is servicing; the handler keeps it.
DisconnectCur(H) ==
    IF H.pos > 0
    THEN [clients |-> disconnect(H.clients, H.pos), pos |-> 0,
          cur |-> H.clients[H.pos], raised |-> H.raised]
    ELSE H

\* The place of the first record with this address and group, 0 for None.
_get_client_by_addr(cl, addr, group) ==
    LET hits == {k \in 1..Len(cl) : cl[k].addr = addr /\ cl[k].group = group}
    IN  IF hits = {} THEN 0 ELSE CHOOSE k \in hits : \A j \in hits : k <= j

\* _get_client_by_name comparing the group field with the name.
_get_client_by_name_typo(cl, name, group) ==
    {k \in 1..Len(cl) : cl[k].group = name /\ cl[k].name = name}

\* The places of the records with this name and group.
_get_client_by_name(cl, name, group) ==
    {k \in 1..Len(cl) : cl[k].group = group /\ cl[k].name = name}

\* The places of the records of this group, in list order.
_get_clients_by_group(cl, group) ==
    SelectSeq([k \in 1..Len(cl) |-> k], LAMBDA k : cl[k].group = group)

\* _get_free_addr: `for addr in range(1, 255)`, from addr on.
RECURSIVE FreeAddrFrom(_, _, _)
FreeAddrFrom(cl, group, addr) ==
    IF addr >= ADDR_STOP THEN NoAddr
    ELSE IF _get_client_by_addr(cl, addr, group) = 0 THEN addr
    ELSE FreeAddrFrom(cl, group, addr + 1)

\* _get_free_addr looking the address up without the group.
_get_free_addr_nogroup(cl, group) == FreeAddrFrom(cl, "", FIRST_ADDR)

_get_free_addr(cl, group) == FreeAddrFrom(cl, group, FIRST_ADDR)

\* The second loop of _get_random_name: for a in range(1, 255), for name in
\* the pool, name + str(a); (a, j) is the place the loops have reached.
RECURSIVE SuffixedName(_, _, _)
SuffixedName(used, a, j) ==
    IF a >= ADDR_STOP THEN NoName
    ELSE IF j > Len(_RANDOM_NAMES) THEN SuffixedName(used, a + 1, 1)
    ELSE IF (_RANDOM_NAMES[j] \o ToString(a)) \notin used
         THEN _RANDOM_NAMES[j] \o ToString(a)
         ELSE SuffixedName(used, a, j + 1)

\* _get_random_name that does not look at the names in use.
_get_random_name_first(cl, group) == _RANDOM_NAMES[1]

_get_random_name(cl, group) ==
    LET used_names == {cl[k].name : k \in Range(_get_clients_by_group(cl, group))}
        unused == {j \in 1..Len(_RANDOM_NAMES) : _RANDOM_NAMES[j] \notin used_names}
    IN  IF unused # {}
        THEN _RANDOM_NAMES[CHOOSE j \in unused : \A i \in unused : j <= i]
        ELSE SuffixedName(used_names, 1, 1)

_get_peers_list(cl, group) ==
    LET g == _get_clients_by_group(cl, group)
    IN  [k \in 1..Len(g) |-> [name |-> cl[g[k]].name, addr |-> cl[g[k]].addr]]

\* _send_bytes(client, data) for the record at place k of the list.
_send_bytes(H, k, frame) ==
    [H EXCEPT !.clients[k].outb = Append(@, frame)]

\* _send_bytes(client, data) for the record the handler is servicing.
SendCur(H, frame) ==
    IF H.pos > 0 THEN _send_bytes(H, H.pos, frame)
    ELSE [H EXCEPT !.cur.outb = Append(@, frame)]

RECURSIVE SendEach(_, _, _)
SendEach(H, dests, frame) ==
    IF dests = <<>> THEN H
    ELSE SendEach(_send_bytes(H, Head(dests), frame), Tail(dests), frame)

_send_peers_frame(H, group) ==
    LET e_frame == MkFrame(FRAME_TYPE_PEERS, ALL_CLIENTS, SERVER_ADDR, "", "",
                           _get_peers_list(H.clients, group))
    IN  SendEach(H, _get_clients_by_group(H.clients, group), e_frame)

_send_sysm_name_frame(H, name) ==
    SendCur(H, MkFrame(FRAME_TYPE_SYSM, Cur(H).addr, SERVER_ADDR, name, "", <<>>))

\* _process_authframe telling the client its name after the PEERS frames.
_process_authframe_sysmlast(H, f) ==
    LET group == f.group
        blank == f.name = ""
        name  == IF blank THEN _get_random_name(H.clients, group) ELSE f.name
    IN  IF group \in groups
        THEN IF blank /\ name = NoName
             THEN DisconnectCur(H)
             ELSE IF ~blank /\ _get_client_by_name(H.clients, name, group) # {}
             THEN DisconnectCur(H)
             ELSE LET addr == _get_free_addr(H.clients, group)
                      H1 == _send_peers_frame(
                                SetCur(H, [Cur(H) EXCEPT !.name = name,
                                                         !.group = group,
                                                         !.addr = addr]),
                                group)
                  IN  IF addr = NoAddr
                      THEN DisconnectCur(H)
                      ELSE IF blank THEN _send_sysm_name_frame(H1, name) ELSE H1
        ELSE DisconnectCur(H)

\* _process_authframe without the whitelist of groups.
_process_authframe_nowhitelist(H, f) ==
    LET group == f.group
        blank == f.name = ""
        name  == IF blank THEN _get_random_name(H.clients, group) ELSE f.name
    IN  IF blank /\ name = NoName
        THEN DisconnectCur(H)
        ELSE IF ~blank /\ _get_client_by_name(H.clients, name, group) # {}
        THEN DisconnectCur(H)
        ELSE LET H1 == IF blank THEN _send_sysm_name_frame(H, name) ELSE H
                 addr == _get_free_addr(H1.clients, group)
             IN  IF addr = NoAddr
                 THEN DisconnectCur(H1)
                 ELSE _send_peers_frame(
                          SetCur(H1, [Cur(H1) EXCEPT !.name = name,
                                                     !.group = group,
                                                     !.addr = addr]),
                          group)

_process_authframe(H, f) ==
    LET group == f.group
        blank == f.name = ""
        name  == IF blank THEN _get_random_name(H.clients, group) ELSE f.name
    IN  IF group \in groups
        THEN IF blank /\ name = NoName
             THEN DisconnectCur(H)
             ELSE IF ~blank /\ _get_client_by_name(H.clients, name, group) # {}
             THEN DisconnectCur(H)
             ELSE LET H1 == IF blank THEN _send_sysm_name_frame(H, name) ELSE H
                      addr == _get_free_addr(H1.clients, group)
                  IN  IF addr = NoAddr
                      THEN DisconnectCur(H1)
                      ELSE _send_peers_frame(
                               SetCur(H1, [Cur(H1) EXCEPT !.name = name,
                                                          !.group = group,
                                                          !.addr = addr]),
                               group)
        ELSE DisconnectCur(H)

\* _process_dataframe without the test that leaves the sender out.
_process_dataframe_loopback(H, f) ==
    IF f.dest = ALL_CLIENTS
    THEN SendEach(H, _get_clients_by_group(H.clients, Cur(H).group), f)
    ELSE LET dest_client == _get_client_by_addr(H.clients, f.dest, Cur(H).group)
         IN  IF dest_client # 0 THEN _send_bytes(H, dest_client, f) ELSE H

\* _process_dataframe looking the destination up by address alone.
_process_dataframe_anygroup(H, f) ==
    IF f.dest = ALL_CLIENTS
    THEN LET cs == _get_clients_by_group(H.clients, Cur(H).group)
         IN  SendEach(H, SelectSeq(cs, LAMBDA k : H.clients[k].addr # f.sender), f)
    ELSE LET hits == {k \in 1..Len(H.clients) : H.clients[k].addr = f.dest}
         IN  IF hits # {}
             THEN _send_bytes(H, CHOOSE k \in hits : \A j \in hits : k <= j, f)
             ELSE H

\* _process_dataframe forwarding a re-encoded frame (the server encodes with
\* its own address as the sender) in place of the bytes it received.
_process_dataframe_reencode(H, f) ==
    LET g == [f EXCEPT !.sender = SERVER_ADDR]
    IN  IF f.dest = ALL_CLIENTS
        THEN LET cs == _get_clients_by_group(H.clients, Cur(H).group)
             IN  SendEach(H, SelectSeq(cs, LAMBDA k : H.clients[k].addr # f.sender), f)
        ELSE LET dest_client == _get_client_by_addr(H.clients, f.dest, Cur(H).group)
             IN  IF dest_client # 0 THEN _send_bytes(H, dest_client, g) ELSE H

_process_dataframe(H, f) ==
    IF f.dest = ALL_CLIENTS
    THEN LET cs == _get_clients_by_group(H.clients, Cur(H).group)
         IN  SendEach(H, SelectSeq(cs, LAMBDA k : H.clients[k].addr # f.sender), f)
    ELSE LET dest_client == _get_client_by_addr(H.clients, f.dest, Cur(H).group)
         IN  IF dest_client # 0 THEN _send_bytes(H, dest_client, f) ELSE H

\* _process_frame without the test of the declared sender.
_process_frame_anysender(H, f, t) ==
    IF f.version # VERSION THEN [H EXCEPT !.raised = "Exception"]
    ELSE IF f.type = FRAME_TYPE_AUTH THEN _process_authframe(H, f)
    ELSE IF Cur(H).group = "" THEN H
    ELSE LET H1 == SetCur(H, [Cur(H) EXCEPT !.watchDog = t])
         IN  IF f.type = FRAME_TYPE_DATA THEN _process_dataframe(H1, f) ELSE H1

\* _process_frame without the test that the client has authenticated.
_process_frame_anyclient(H, f, t) ==
    IF f.version # VERSION THEN [H EXCEPT !.raised = "Exception"]
    ELSE IF f.type = FRAME_TYPE_AUTH THEN _process_authframe(H, f)
    ELSE IF Cur(H).addr # f.sender THEN H
    ELSE LET H1 == SetCur(H, [Cur(H) EXCEPT !.watchDog = t])
         IN  IF f.type = FRAME_TYPE_DATA THEN _process_dataframe(H1, f) ELSE H1

\* _process_frame without the watchdog update.
_process_frame_nowatchdog(H, f, t) ==
    IF f.version # VERSION THEN [H EXCEPT !.raised = "Exception"]
    ELSE IF f.type = FRAME_TYPE_AUTH THEN _process_authframe(H, f)
    ELSE IF Cur(H).group = "" THEN H
    ELSE IF Cur(H).addr # f.sender THEN H
    ELSE IF f.type = FRAME_TYPE_DATA THEN _process_dataframe(H, f) ELSE H

\* _process_frame(frame_bytes, client) at time t.  _decode_frame raises
\* Exception on a frame of another version.
_process_frame(H, f, t) ==
    IF f.version # VERSION THEN [H EXCEPT !.raised = "Exception"]
    ELSE IF f.type = FRAME_TYPE_AUTH THEN _process_authframe(H, f)
    ELSE IF Cur(H).group = "" THEN H
    ELSE IF Cur(H).addr # f.sender THEN H
    ELSE LET H1 == SetCur(H, [Cur(H) EXCEPT !.watchDog = t])
         IN  IF f.type = FRAME_TYPE_DATA THEN _process_dataframe(H1, f) ELSE H1

\* Net._get_frame on a buffer of whole frames: <<frame found, frame, remainder>>.
_get_frame(buf) ==
    IF buf = <<>> THEN <<FALSE, <<>>, buf>> ELSE <<TRUE, Head(buf), Tail(buf)>>

RECURSIVE _process_buf(_, _)
_process_buf(H, t) ==
    LET got == _get_frame(Cur(H).inb)
    IN  IF ~got[1] THEN H
        ELSE LET H1 == _process_frame(SetCur(H, [Cur(H) EXCEPT !.inb = got[3]]),
                                      got[2], t)
             IN  IF H1.raised # "" THEN H1 ELSE _process_buf(H1, t)

\* _service_read without the IN_BUFFER_LIMIT test.
_service_read_nolimit(cl, i, r, t) ==
    LET H == [clients |-> cl, pos |-> i, cur |-> cl[i], raised |-> ""]
    IN  IF r.kind = "frag"
        THEN SetCur(H, [Cur(H) EXCEPT !.pend = @ + RECV_SIZE])
        ELSE IF r.kind = "data"
        THEN _process_buf(SetCur(H, [Cur(H) EXCEPT !.inb = @ \o r.frames, !.pend = 0]), t)
        ELSE DisconnectCur(H)

\* _service_read(key) for the record at place i.  r is what sock.recv(1024)
\* gave: data ending on a frame boundary (a chunk of frames, r.frames), data
\* ending inside a frame (kind "frag": 1024 more bytes of an incomplete
\* frame), b'' (the peer closed) or a connection error.  pend counts the
\* bytes of the incomplete frame inb holds; a read that ends on a frame
\* boundary completes it.
_service_read(cl, i, r, t) ==
    LET H == [clients |-> cl, pos |-> i, cur |-> cl[i], raised |-> ""]
    IN  IF r.kind \in {"data", "frag"} /\ Cur(H).pend + RECV_SIZE > IN_BUFFER_LIMIT
        THEN DisconnectCur(H)
        ELSE IF r.kind = "frag"
        THEN SetCur(H, [Cur(H) EXCEPT !.pend = @ + RECV_SIZE])
        ELSE IF r.kind = "data"
        THEN _process_buf(SetCur(H, [Cur(H) EXCEPT !.inb = @ \o r.frames, !.pend = 0]), t)
        ELSE IF r.kind = "eof"
        THEN DisconnectCur(H)
        ELSE DisconnectCur(H)

\* _write_all(): `for client in self.clients` walks the list by index while
\* disconnect() may remove the record at that index.  w[k] is what sock.send
\* does for the record that was k-th when the walk began: all of outb, only
\* its first frame, a connection error, or BlockingIOError ("block"), which
\* is an OSError and is caught with the others.  gone counts the records
\* removed so far.
RECURSIVE WriteFrom(_, _, _, _)
WriteFrom(cl, i, gone, w) ==
    IF i > Len(cl) THEN cl
    ELSE IF cl[i].outb = <<>> THEN WriteFrom(cl, i + 1, gone, w)
    ELSE IF w[i + gone] \in {"err", "block"}
         THEN WriteFrom(disconnect(cl, i), i + 1, gone + 1, w)
    ELSE IF w[i + gone] = "part"
         THEN WriteFrom([cl EXCEPT ![i].outb = Tail(@)], i + 1, gone, w)
    ELSE WriteFrom([cl EXCEPT ![i].outb = <<>>], i + 1, gone, w)

_write_all(cl, w) == WriteFrom(cl, 1, 0, w)

\* disconnect_if_timeout(): the same walk by index, removing as it goes.
RECURSIVE TimeoutFrom(_, _, _)
TimeoutFrom(cl, i, t) ==
    IF i > Len(cl) THEN cl
    ELSE IF cl[i].watchDog < t - WATCHDOG_TIMEOUT
         THEN TimeoutFrom(disconnect(cl, i), i + 1, t)
         ELSE TimeoutFrom(cl, i + 1, t)

\* disconnect_if_timeout that removes nothing.
disconnect_if_timeout_never(cl, t) == cl

disconnect_if_timeout(cl, t) == TimeoutFrom(cl, 1, t)

\* --------------------------------------------------------------- NetNode
\* A Python dict with string keys, as a function on the set of its keys.
EmptyDict == [k \in {} |-> <<>>]

DictPut(d, k, v) == [x \in (DOMAIN d) \cup {k} |-> IF x = k THEN v ELSE d[x]]

DictDel(d, k) == [x \in (DOMAIN d) \ {k} |-> d[x]]

\* None, as returned by get_msg
NoMsg == 0

\* self.peers, a dict in insertion order, as a sequence of [name, addr].
PeerPlaces(peers, name) == {k \in 1..Len(peers) : peers[k].name = name}

PeersSet(peers, name, addr) ==
    IF PeerPlaces(peers, name) # {}
    THEN [k \in 1..Len(peers) |->
             IF peers[k].name = name THEN [name |-> name, addr |-> addr] ELSE peers[k]]
    ELSE Append(peers, [name |-> name, addr |-> addr])

PeersGet(peers, name) == peers[CHOOSE k \in PeerPlaces(peers, name) : TRUE].addr

\* NetNode.__init__ at time t.  name stands for the attribute connect() sets;
\* sock is "none" until connect() opens a socket; raised names an exception
\* that has left the object's methods; pend counts the bytes of an
\* incomplete frame held in inBuf.
NewNode(t) ==
    [name |-> NoName, my_addr |-> UNKNOWN_ADDR, peers |-> <<>>,
     in_data |-> EmptyDict, out_data |-> <<>>, inBuf |-> <<>>, pend |-> 0,
     outBuf |-> <<>>, heartBeatTime |-> t, sock |-> "none", raised |-> ""]

\* _send_frame: _encode_frame with the node's current address as the sender,
\* appended to outBuf by _send_bytes.
_send_frame(nd, dest, type, name, group, data) ==
    [nd EXCEPT !.outBuf = Append(@, MkFrame(type, dest, nd.my_addr, name, group, data))]

_send_auth(nd, name, group) ==
    _send_frame(nd, SERVER_ADDR, FRAME_TYPE_AUTH, name, group, <<>>)

_send_data_frame(nd, dest, data) ==
    _send_frame(nd, dest, FRAME_TYPE_DATA, "", "", data)

\* _send_heartbeat_frame with now > heartBeatTime + WATCHDOG_TIMEOUT.
_send_heartbeat_frame_late(nd, t) ==
    IF t > nd.heartBeatTime + WATCHDOG_TIMEOUT
    THEN _send_frame([nd EXCEPT !.heartBeatTime = t],
                     SERVER_ADDR, FRAME_TYPE_HEART, "", "", <<>>)
    ELSE nd

_send_heartbeat_frame(nd, t) ==
    IF t > nd.heartBeatTime + HEARTBEAT_PERIOD
    THEN _send_frame([nd EXCEPT !.heartBeatTime = t],
                     SERVER_ADDR, FRAME_TYPE_HEART, "", "", <<>>)
    ELSE nd

\* The first loop of process_send: one DATA frame for each destination of
\* out_data with pending envelopes, from entry k on.
RECURSIVE FlushOutData(_, _)
FlushOutData(nd, k) ==
    IF k > Len(nd.out_data) THEN nd
    ELSE IF Len(nd.out_data[k].msgs) > 0
         THEN FlushOutData(
                  [_send_data_frame(nd, nd.out_data[k].dest, nd.out_data[k].msgs)
                      EXCEPT !.out_data[k].msgs = <<>>],
                  k + 1)
         ELSE FlushOutData(nd, k + 1)

\* process_send that leaves its first loop after one DATA frame.
process_send_single(nd, t, n) ==
    LET hits == {k \in 1..Len(nd.out_data) : Len(nd.out_data[k].msgs) > 0}
        j == CHOOSE k \in hits : \A i \in hits : k <= i
        nd1 == IF hits = {} THEN nd
               ELSE [_send_data_frame(nd, nd.out_data[j].dest, nd.out_data[j].msgs)
                        EXCEPT !.out_data[j].msgs = <<>>]
    IN  IF nd1.outBuf # <<>>
        THEN LET m == IF n < Len(nd1.outBuf) THEN n ELSE Len(nd1.outBuf)
             IN  [nd |-> [nd1 EXCEPT !.heartBeatTime = t,
                                     !.outBuf = SubSeq(@, m + 1, Len(@))],
                  sent |-> SubSeq(nd1.outBuf, 1, m)]
        ELSE [nd |-> _send_heartbeat_frame(nd1, t), sent |-> <<>>]

\* process_send() at time t; the socket takes the first n frames of outBuf
\* before it would block.  Gives the node and the frames sent.
process_send(nd, t, n) ==
    LET nd1 == FlushOutData(nd, 1)
    IN  IF nd1.outBuf # <<>>
        THEN LET m == IF n < Len(nd1.outBuf) THEN n ELSE Len(nd1.outBuf)
             IN  [nd |-> [nd1 EXCEPT !.heartBeatTime = t,
                                     !.outBuf = SubSeq(@, m + 1, Len(@))],
                  sent |-> SubSeq(nd1.outBuf, 1, m)]
        ELSE [nd |-> _send_heartbeat_frame(nd1, t), sent |-> <<>>]

_get_name_from_addr(nd, addr) ==
    LET hits == {k \in 1..Len(nd.peers) : nd.peers[k].addr = addr}
    IN  IF hits = {} THEN NoName
        ELSE nd.peers[CHOOSE k \in hits : \A j \in hits : k <= j].name

_get_peer_addr(nd, name) ==
    IF PeerPlaces(nd.peers, name) # {} THEN PeersGet(nd.peers, name)
    ELSE IF name = "ALL" THEN ALL_CLIENTS
    ELSE NoAddr

\* The body of the loop of _process_dataframe, for one message.
StoreMessage(in_data, sender_name, message) ==
    LET d1 == IF sender_name \in DOMAIN in_data THEN in_data
              ELSE DictPut(in_data, sender_name, EmptyDict)
        t1 == IF message.title \in DOMAIN d1[sender_name] THEN d1[sender_name]
              ELSE DictPut(d1[sender_name], message.title, <<>>)
    IN  DictPut(d1, sender_name,
                DictPut(t1, message.title,
                        IF message.queue
                        THEN Append(t1[message.title], message.content)
                        ELSE <<message.content>>))

RECURSIVE StoreMessages(_, _, _)
StoreMessages(in_data, sender_name, messages) ==
    IF messages = <<>> THEN in_data
    ELSE StoreMessages(StoreMessage(in_data, sender_name, Head(messages)),
                       sender_name, Tail(messages))

\* NetNode._process_dataframe with queue=false appending like queue=true.
NodeProcessDataframe_append(nd, f) ==
    [nd EXCEPT !.in_data =
        StoreMessages(@, _get_name_from_addr(nd, f.sender),
                      [k \in 1..Len(f.data) |-> [f.data[k] EXCEPT !.queue = TRUE]])]

\* NetNode._process_dataframe
NodeProcessDataframe(nd, f) ==
    [nd EXCEPT !.in_data = StoreMessages(@, _get_name_from_addr(nd, f.sender), f.data)]

RECURSIVE PeersFrom(_, _)
PeersFrom(peers, list) ==
    IF list = <<>> THEN peers
    ELSE PeersFrom(PeersSet(peers, Head(list).name, Head(list).addr), Tail(list))

\* get_peers(): list(self.peers.keys())
get_peers(nd) == [k \in 1..Len(nd.peers) |-> nd.peers[k].name]

\* _process_peersframe that adds the frame's entries to the map it has.
_process_peersframe_merge(nd, f) ==
    LET peers == PeersFrom(nd.peers, f.data)
    IN  IF PeerPlaces(peers, nd.name) # {}
        THEN [nd EXCEPT !.peers = peers, !.my_addr = PeersGet(peers, nd.name)]
        ELSE [nd EXCEPT !.peers = peers, !.raised = "KeyError"]

\* _process_peersframe; self.peers[self.name] raises KeyError when the list
\* does not name this node.
_process_peersframe(nd, f) ==
    LET peers == PeersFrom(<<>>, f.data)
    IN  IF PeerPlaces(peers, nd.name) # {}
        THEN [nd EXCEPT !.peers = peers, !.my_addr = PeersGet(peers, nd.name)]
        ELSE [nd EXCEPT !.peers = peers, !.raised = "KeyError"]

\* _process_sysmframe and _process_sysm_name (SYSM_TYPE_NAME is the one type)
_process_sysmframe(nd, f) == [nd EXCEPT !.name = f.name]

\* NetNode._process_frame
NodeProcessFrame(nd, f) ==
    IF f.version # VERSION THEN [nd EXCEPT !.raised = "Exception"]
    ELSE IF f.type = FRAME_TYPE_DATA THEN NodeProcessDataframe(nd, f)
    ELSE IF f.type = FRAME_TYPE_PEERS THEN _process_peersframe(nd, f)
    ELSE IF f.type = FRAME_TYPE_SYSM THEN _process_sysmframe(nd, f)
    ELSE nd

RECURSIVE _process_inbuf(_)
_process_inbuf(nd) ==
    LET got == _get_frame(nd.inBuf)
    IN  IF ~got[1] THEN nd
        ELSE LET nd1 == NodeProcessFrame([nd EXCEPT !.inBuf = got[3]], got[2])
             IN  IF nd1.raised # "" \/ Len(nd1.inBuf) = 0 THEN nd1
                 ELSE _process_inbuf(nd1)

\* process_recv(), the socket holding the frames `received`, which end on a
\* frame boundary.
process_recv(nd, received) ==
    _process_inbuf([nd EXCEPT !.inBuf = @ \o received,
                              !.pend = IF received = <<>> THEN @ ELSE 0])

\* process_recv(), the socket holding n more bytes of an incomplete frame:
\* the recv loop appends them and _process_inbuf finds no frame.
process_recv_fragment(nd, n) == [nd EXCEPT !.pend = @ + n]

\* available(sender, title)
available(nd, sender, title) ==
    IF sender \notin DOMAIN nd.in_data THEN 0
    ELSE IF title \notin DOMAIN nd.in_data[sender] THEN 0
    ELSE Len(nd.in_data[sender][title])

\* get_msg returning the newest value in place of the oldest.
get_msg_newest(nd, sender, title, clear) ==
    IF sender \notin DOMAIN nd.in_data THEN [nd |-> nd, ret |-> NoMsg]
    ELSE IF title \notin DOMAIN nd.in_data[sender] THEN [nd |-> nd, ret |-> NoMsg]
    ELSE IF Len(nd.in_data[sender][title]) < 1
         THEN [nd |-> [nd EXCEPT !.in_data =
                          DictPut(@, sender, DictDel(@[sender], title))],
               ret |-> NoMsg]
    ELSE LET q == nd.in_data[sender][title]
         IN  [nd |-> [nd EXCEPT !.in_data =
                         DictPut(@, sender,
                                 DictPut(@[sender], title, SubSeq(q, 1, Len(q) - 1)))],
              ret |-> q[Len(q)]]

\* get_msg that never removes what it returns.
get_msg_peek(nd, sender, title, clear) ==
    IF sender \notin DOMAIN nd.in_data THEN [nd |-> nd, ret |-> NoMsg]
    ELSE IF title \notin DOMAIN nd.in_data[sender] THEN [nd |-> nd, ret |-> NoMsg]
    ELSE IF Len(nd.in_data[sender][title]) < 1
         THEN [nd |-> [nd EXCEPT !.in_data =
                          DictPut(@, sender, DictDel(@[sender], title))],
               ret |-> NoMsg]
    ELSE [nd |-> nd, ret |-> Head(nd.in_data[sender][title])]

\* get_msg(sender, title, clear): the node and the value returned.
get_msg(nd, sender, title, clear) ==
    IF sender \notin DOMAIN nd.in_data THEN [nd |-> nd, ret |-> NoMsg]
    ELSE IF title \notin DOMAIN nd.in_data[sender] THEN [nd |-> nd, ret |-> NoMsg]
    ELSE IF Len(nd.in_data[sender][title]) < 1
         THEN [nd |-> [nd EXCEPT !.in_data =
                          DictPut(@, sender, DictDel(@[sender], title))],
               ret |-> NoMsg]
    ELSE IF clear
         THEN [nd |-> [nd EXCEPT !.in_data =
                          DictPut(@, sender,
                                  DictPut(@[sender], title, Tail(@[sender][title])))],
               ret |-> Head(nd.in_data[sender][title])]
    ELSE [nd |-> nd, ret |-> Head(nd.in_data[sender][title])]

\* get_all_msgs(sender, title, clear): the node, whether None is returned,
\* and the list returned otherwise.
get_all_msgs(nd, sender, title, clear) ==
    IF sender \notin DOMAIN nd.in_data THEN [nd |-> nd, none |-> TRUE, ret |-> <<>>]
    ELSE IF title \notin DOMAIN nd.in_data[sender]
         THEN [nd |-> nd, none |-> TRUE, ret |-> <<>>]
    ELSE IF Len(nd.in_data[sender][title]) < 1
         THEN [nd |-> [nd EXCEPT !.in_data =
                          DictPut(@, sender, DictDel(@[sender], title))],
               none |-> TRUE, ret |-> <<>>]
    ELSE IF clear
         THEN [nd |-> [nd EXCEPT !.in_data =
                          DictPut(@, sender, DictPut(@[sender], title, <<>>))],
               none |-> FALSE, ret |-> nd.in_data[sender][title]]
         ELSE [nd |-> nd, none |-> FALSE, ret |-> nd.in_data[sender][title]]

\* send_msg that also encodes the envelope into outBuf at once.
send_msg_eager(nd, name, title, content, queue) ==
    LET dest == _get_peer_addr(nd, name)
        data == [title |-> title, content |-> content, queue |-> queue]
        hits == {k \in 1..Len(nd.out_data) : nd.out_data[k].dest = dest}
        nd1  == IF dest = NoAddr THEN nd ELSE _send_data_frame(nd, dest, <<data>>)
    IN  IF dest = NoAddr THEN [nd |-> nd, ret |-> FALSE]
        ELSE IF hits = {}
        THEN [nd |-> [nd1 EXCEPT !.out_data =
                         Append(@, [dest |-> dest, msgs |-> <<data>>])],
              ret |-> TRUE]
        ELSE [nd |-> [nd1 EXCEPT !.out_data[CHOOSE k \in hits : TRUE].msgs =
                         Append(@, data)],
              ret |-> TRUE]

\* send_msg(name, title, content, queue): the node and the value returned.
send_msg(nd, name, title, content, queue) ==
    LET dest == _get_peer_addr(nd, name)
        data == [title |-> title, content |-> content, queue |-> queue]
        hits == {k \in 1..Len(nd.out_data) : nd.out_data[k].dest = dest}
    IN  IF dest = NoAddr THEN [nd |-> nd, ret |-> FALSE]
        ELSE IF hits = {}
        THEN [nd |-> [nd EXCEPT !.out_data =
                         Append(@, [dest |-> dest, msgs |-> <<data>>])],
              ret |-> TRUE]
        ELSE [nd |-> [nd EXCEPT !.out_data[CHOOSE k \in hits : TRUE].msgs =
                         Append(@, data)],
              ret |-> TRUE]

\* _send_req(req_type, data); the request's type and data are not modelled.
_send_req(nd, req_type, data) ==
    _send_frame(nd, SERVER_ADDR, FRAME_TYPE_REQ, "", "", <<>>)

\* NetNode.disconnect(): `self._send_req(self.REQ_TYPE_DISCONNECT)` passes one
\* argument to a method that requires two, so the call raises TypeError
\* before _send_req runs and before `self.socket.close()` is reached.
NodeDisconnect(nd) == [nd EXCEPT !.raised = "TypeError"]

\* connect(host, name, group, wait=False) at time t: a new socket, the AUTH
\* frame, one process_send.  Gives the node and the frames sent.
connect(nd, name, group, t) ==
    process_send(_send_auth([nd EXCEPT !.name = name, !.sock = "open"], name, group),
                 t, 1 + Len(nd.outBuf))

\* ---------------------------------------------------------------- inputs
\* The clock is read after the watchdog period or just past it.
TickSteps == {WATCHDOG_TIMEOUT, WATCHDOG_TIMEOUT + 1}

ReqNames == {"", "a"}
ReqGroups == {"g", "h", "x"}
DestAddrs == {1, 2, ALL_CLIENTS}

\* The sender a client declares: its allocated address, or the address of
\* a node that does not know its own (255, which is also what an
\* unauthenticated record holds), or another client's address.
SenderAddrs == {1, 2, UNKNOWN_ADDR}

AuthFrames ==
    {MkFrame(FRAME_TYPE_AUTH, SERVER_ADDR, UNKNOWN_ADDR, n, g, <<>>) :
        n \in ReqNames, g \in ReqGroups}

DataFrames ==
    {MkFrame(FRAME_TYPE_DATA, d, s, "", "", <<>>) : d \in DestAddrs, s \in SenderAddrs}

HeartFrames ==
    {MkFrame(FRAME_TYPE_HEART, SERVER_ADDR, s, "", "", <<>>) : s \in SenderAddrs}

ReqFrames ==
    {MkFrame(FRAME_TYPE_REQ, SERVER_ADDR, s, "", "", <<>>) : s \in {1, UNKNOWN_ADDR}}

\* A frame from a client built against another version of the protocol.
BadFrames ==
    {[MkFrame(FRAME_TYPE_HEART, SERVER_ADDR, UNKNOWN_ADDR, "", "", <<>>)
         EXCEPT !.version = OtherVersion]}

ClientFrames == AuthFrames \cup DataFrames \cup HeartFrames \cup ReqFrames \cup BadFrames

\* The frames that follow an AUTH frame in one chunk.
FollowFrames ==
    AuthFrames \cup {f \in DataFrames \cup HeartFrames : f.sender = 1}

\* The chunks one recv can deliver: one frame, or an AUTH frame and the
\* frame that follows it.
Chunks ==
    {<<f>> : f \in ClientFrames} \cup {<<a, f>> : a \in AuthFrames, f \in FollowFrames}

RecvOutcomes ==
    {[kind |-> "data", frames |-> c] : c \in Chunks}
    \cup {[kind |-> k, frames |-> <<>>] : k \in {"eof", "err"}}

\* What the sockets do in one _write_all.  The client sockets are writable:
\* every send takes the whole buffer.
SendOutcomes(cl) == {[k \in 1..Len(cl) |-> "all"]}

\* What reaches a node.  Envelopes as send_msg builds them; a DATA frame
\* carries one or two, from the peer at address 2.
Titles == {"x", "y"}

Contents == {1, 2}

Envelopes == [title : Titles, content : Contents, queue : BOOLEAN]

EnvelopeLists == {<<e>> : e \in Envelopes} \cup {<<d, e>> : d \in Envelopes, e \in Envelopes}

PeerAddr == FIRST_ADDR + 1

NodeDataFrames ==
    {MkFrame(FRAME_TYPE_DATA, d, PeerAddr, "", "", m) : d \in {FIRST_ADDR, ALL_CLIENTS}, m \in EnvelopeLists}

\* The PEERS lists the server builds for a group holding the node, alone or
\* with the peer "b".
PeerLists(name) ==
    {<<[name |-> name, addr |-> FIRST_ADDR]>>,
     <<[name |-> name, addr |-> FIRST_ADDR], [name |-> "b", addr |-> PeerAddr]>>}

NodePeersFrames(name) ==
    {MkFrame(FRAME_TYPE_PEERS, ALL_CLIENTS, SERVER_ADDR, "", "", l) : l \in PeerLists(name)}

\* The server names a node only in answer to an AUTH with a blank name.
NodeSysmFrames(name) ==
    IF name = ""
    THEN {MkFrame(FRAME_TYPE_SYSM, UNKNOWN_ADDR, SERVER_ADDR, _RANDOM_NAMES[1], "", <<>>)}
    ELSE {}

NodeFrames(name) == NodeDataFrames \cup NodePeersFrames(name) \cup NodeSysmFrames(name)

\* The senders get_msg is asked about: the peer, and None.
Senders == {"b", NoName}

\* The values self.in_data holds, each with its sender, title and place.
Unread(nd) ==
    UNION {UNION {{<<s, t, k>> : k \in 1..Len(nd.in_data[s][t])}
                     : t \in DOMAIN nd.in_data[s]}
              : s \in DOMAIN nd.in_data}

NoWire == [syn |-> FALSE, up |-> <<>>, down |-> <<>>]

\* The two nodes of the end-to-end model, named as they authenticate.
NodeIds == {"host", "bob"}

\* A node and its connection before connect(): place is the place of its
\* record in the server's list (0 before the server accepts), sent the
\* envelopes its application has passed to send_msg, got the values get_msg
\* has returned to it.
NewEndpoint ==
    [nd |-> NewNode(0), syn |-> FALSE, up |-> <<>>, down |-> <<>>, place |-> 0,
     sent |-> <<>>, got |-> <<>>]

\* No connect() call is in progress.
NoCall == [pc |-> "idle", wait |-> FALSE, end_time |-> 0, ret |-> FALSE]

\* ------------------------------------------------------ frames as bytes
\* A bytes object is a sequence of numbers 0..255; NoneBytes stands for None
\* where the code expects a bytes object.
HEADER_SIZE == 11
VERSION_BYTES == <<48, 50, 48>>
NoneBytes == <<-1>>

\* data[lo:hi] of a bytes object.
Slice(data, lo, hi) ==
    LET h == IF hi > Len(data) THEN Len(data) ELSE hi
    IN  IF lo >= h THEN <<>> ELSE SubSeq(data, lo + 1, h)

\* n.to_bytes(4, 'big')
to_bytes(n) ==
    <<(n \div 16777216) % 256, (n \div 65536) % 256, (n \div 256) % 256, n % 256>>

\* int.from_bytes(b, 'big')
RECURSIVE from_bytes(_)
from_bytes(b) ==
    IF b = <<>> THEN 0
    ELSE from_bytes(SubSeq(b, 1, Len(b) - 1)) * 256 + b[Len(b)]

\* The decimal digits of a natural number, in ASCII.
RECURSIVE DecimalBytes(_)
DecimalBytes(n) ==
    IF n < 10 THEN <<48 + n>> ELSE Append(DecimalBytes(n \div 10), 48 + (n % 10))

\* bytes(json.dumps(data), 'utf-8') for None, a natural number, and a string
\* of n letters "a".
_dumps(data) ==
    CASE data.kind = "null" -> <<110, 117, 108, 108>>
      [] data.kind = "int"  -> DecimalBytes(data.n)
      [] data.kind = "str"  -> <<34>> \o [i \in 1..data.n |-> 97] \o <<34>>

\* _construct_frame with a length prefix that does not count the header.
_construct_frame_barelen(frame, my_addr, b_data) ==
    LET meta == IF frame.meta = NoneBytes THEN <<0>> ELSE frame.meta
    IN  to_bytes(Len(b_data)) \o VERSION_BYTES \o frame.dest \o my_addr
            \o frame.type \o meta \o b_data

_construct_frame(frame, my_addr, b_data) ==
    LET frame_length == HEADER_SIZE + Len(b_data)
        meta == IF frame.meta = NoneBytes THEN <<0>> ELSE frame.meta
    IN  to_bytes(frame_length) \o VERSION_BYTES \o frame.dest \o my_addr
            \o frame.type \o meta \o b_data

\* A frame whose data has kind "absent" is a dict without the key 'data'.
_encode_frame(frame, my_addr) ==
    LET b_data == IF frame.data.kind # "absent" THEN _dumps(frame.data) ELSE <<>>
    IN  _construct_frame(frame, my_addr, b_data)

\* raised is the exception _decode_frame raises, "" when it returns.
_decode_frame(frame) ==
    [raised  |-> IF Slice(frame, 4, 7) # VERSION_BYTES THEN "Exception" ELSE "",
     version |-> Slice(frame, 4, 7),
     dest    |-> Slice(frame, 7, 8),
     sender  |-> Slice(frame, 8, 9),
     type    |-> Slice(frame, 9, 10),
     meta    |-> Slice(frame, 10, 11),
     data    |-> Slice(frame, 11, Len(frame))]

\* _get_frame that does not wait for the whole frame.
_get_frame_bytes_eager(data) ==
    LET buf_size == Len(data)
        frame_len == from_bytes(Slice(data, 0, 4))
    IN  IF buf_size < HEADER_SIZE
        THEN [found |-> FALSE, frame |-> <<>>, rest |-> data]
        ELSE [found |-> TRUE, frame |-> Slice(data, 0, frame_len),
              rest |-> Slice(data, frame_len, buf_size)]

\* Net._get_frame on bytes: found is FALSE where the code returns None.
_get_frame_bytes(data) ==
    LET buf_size == Len(data)
        frame_len == from_bytes(Slice(data, 0, 4))
    IN  IF buf_size < HEADER_SIZE
        THEN [found |-> FALSE, frame |-> <<>>, rest |-> data]
        ELSE IF buf_size < frame_len
        THEN [found |-> FALSE, frame |-> <<>>, rest |-> data]
        ELSE [found |-> TRUE, frame |-> Slice(data, 0, frame_len),
              rest |-> Slice(data, frame_len, buf_size)]

\* NetNode._process_inbuf on bytes; c is the receiving side of codec, whose
\* got collects what _process_frame was handed, decoded.
RECURSIVE _process_inbuf_bytes(_)
_process_inbuf_bytes(c) ==
    LET g == _get_frame_bytes(c.inBuf)
        d == _decode_frame(g.frame)
        c1 == [c EXCEPT !.inBuf = g.rest, !.got = Append(@, d)]
    IN  IF ~g.found THEN c
        ELSE IF d.raised # "" THEN [c1 EXCEPT !.raised = d.raised]
        ELSE IF Len(c1.inBuf) > 0 THEN _process_inbuf_bytes(c1)
        ELSE c1

\* NetServer._process_buf on bytes.
RECURSIVE _process_buf_bytes(_)
_process_buf_bytes(c) ==
    LET g == _get_frame_bytes(c.inBuf)
        d == _decode_frame(g.frame)
        c1 == [c EXCEPT !.inBuf = g.rest, !.got = Append(@, d)]
    IN  IF ~g.found THEN c
        ELSE IF d.raised # "" THEN [c1 EXCEPT !.raised = d.raised]
        ELSE _process_buf_bytes(c1)

\* The receiving side takes the bytes received and extracts what it can.
Receive(c, received) ==
    LET c1 == [c EXCEPT !.inBuf = @ \o received]
    IN  IF c.side = "node" THEN _process_inbuf_bytes(c1) ELSE _process_buf_bytes(c1)

\* Nothing encoded, nothing in flight, nothing buffered.
NoCodec ==
    [side |-> "node", my_addr |-> <<SERVER_ADDR>>, frames |-> <<>>, sent |-> <<>>,
     all |-> <<>>, stream |-> <<>>, inBuf |-> <<>>, got |-> <<>>, raised |-> ""]

\* --------------------------------------------------------------- actions
Init ==
    /\ clients = <<>>
    /\ now = 0
    /\ node = NewNode(0)
    /\ wire = NoWire
    /\ app = [sendAt |-> 0, recvAt |-> 0]
    /\ server = "running"
    /\ nodes = [id \in NodeIds |-> NewEndpoint]
    /\ call = NoCall
    /\ codec = NoCodec

\* loop(): the listening socket is ready.
AcceptConnection ==
    /\ server = "running"
    /\ Len(clients) < MaxClients
    /\ clients' = Append(clients, NewClient(now))
    /\ UNCHANGED <<now, node, wire, app, server, nodes, call, codec>>

\* loop(): a client socket is readable: _service_read, then _write_all.
\* Nothing between _service_read and the end of the script catches an
\* Exception: it ends the server process before _write_all.
ServiceConnection ==
    /\ server = "running"
    /\ \E i \in 1..Len(clients), r \in RecvOutcomes :
        LET H == _service_read(clients, i, r, now)
        IN  \E w \in SendOutcomes(H.clients) :
                /\ clients' = IF H.raised # "" THEN H.clients ELSE _write_all(H.clients, w)
                /\ server' = IF H.raised # "" THEN H.raised ELSE server
                /\ UNCHANGED <<now, node, wire, app, nodes, call, codec>>

DisconnectIfTimeout ==
    /\ server = "running"
    /\ clients' = disconnect_if_timeout(clients, now)
    /\ UNCHANGED <<now, node, wire, app, server, nodes, call, codec>>

\* time.time() advances.
Tick ==
    \E d \in TickSteps :
        /\ now + d <= MaxTime
        /\ now' = now + d
        /\ UNCHANGED <<clients, node, wire, app, server, nodes, call, codec>>

Next == AcceptConnection \/ ServiceConnection \/ DisconnectIfTimeout \/ Tick

Spec == Init /\ [][Next]_vars

\* ------------------------------------------------ a node and what reaches it
\* connect(host, name, "g", wait=False) on a node that has no socket yet.
NodeConnect ==
    /\ node.sock = "none"
    /\ \E name \in ReqNames : node' = connect(node, name, "g", now).nd
    /\ UNCHANGED <<clients, now, wire, app, server, nodes, call, codec>>

\* process_recv(): one frame has arrived.
NodeRecv ==
    /\ node.sock = "open"
    /\ node.raised = ""
    /\ \E f \in NodeFrames(node.name) :
           /\ Cardinality(Unread(process_recv(node, <<f>>))) <= MaxUnread
           /\ node' = process_recv(node, <<f>>)
    /\ UNCHANGED <<clients, now, wire, app, server, nodes, call, codec>>

\* The application reads: get_msg(sender, title, clear).
NodeGetMsg ==
    /\ node.sock = "open"
    /\ \E s \in Senders, t \in Titles, clear \in BOOLEAN :
           node' = get_msg(node, s, t, clear).nd
    /\ UNCHANGED <<clients, now, wire, app, server, nodes, call, codec>>

\* The application calls disconnect().
NodeCallsDisconnect ==
    /\ node.sock = "open"
    /\ node.raised = ""
    /\ node' = NodeDisconnect(node)
    /\ UNCHANGED <<clients, now, wire, app, server, nodes, call, codec>>

\* The application reads: get_all_msgs(sender, title, clear).
NodeGetAllMsgs ==
    /\ node.sock = "open"
    /\ \E s \in Senders, t \in Titles, clear \in BOOLEAN :
           node' = get_all_msgs(node, s, t, clear).nd
    /\ UNCHANGED <<clients, now, wire, app, server, nodes, call, codec>>

NextNode ==
    NodeConnect \/ NodeRecv \/ NodeGetMsg \/ NodeGetAllMsgs \/ NodeCallsDisconnect

SpecNode == Init /\ [][NextNode]_vars

\* ------------------------------------- one node, the server, and the clock
\* The node's application connects, then calls process_recv and process_send
\* at least once in every second; its socket takes all it is given.  The
\* server's loop wakes whenever a socket is readable, so nothing readable is
\* left unread when the clock moves; main runs disconnect_if_timeout between
\* loops, in any order with the reads.
HB_Connect ==
    /\ node.sock = "none"
    /\ \E name \in ReqNames :
           LET r == connect(node, name, "g", now)
           IN  /\ node' = r.nd
               /\ wire' = [wire EXCEPT !.syn = TRUE, !.up = @ \o r.sent]
    /\ app' = [sendAt |-> now, recvAt |-> now]
    /\ UNCHANGED <<clients, now, server, nodes, call, codec>>

HB_Accept ==
    /\ wire.syn
    /\ clients' = Append(clients, NewClient(now))
    /\ wire' = [wire EXCEPT !.syn = FALSE]
    /\ UNCHANGED <<now, node, app, server, nodes, call, codec>>

\* loop(): the node's socket is readable; recv takes the first n frames.
HB_Service ==
    /\ Len(clients) = 1
    /\ \E n \in 1..Len(wire.up) :
           LET H == _service_read(clients, 1,
                                  [kind |-> "data", frames |-> SubSeq(wire.up, 1, n)], now)
               out == IF Len(H.clients) = 1 THEN H.clients[1].outb ELSE <<>>
           IN  /\ clients' = _write_all(H.clients, [k \in 1..Len(H.clients) |-> "all"])
               /\ wire' = [wire EXCEPT !.up = SubSeq(@, n + 1, Len(@)),
                                       !.down = @ \o out]
    /\ UNCHANGED <<now, node, app, server, nodes, call, codec>>

HB_Timeout ==
    /\ clients' = disconnect_if_timeout(clients, now)
    /\ UNCHANGED <<now, node, wire, app, server, nodes, call, codec>>

HB_ProcessRecv ==
    /\ node.sock = "open"
    /\ node.raised = ""
    /\ node' = process_recv(node, wire.down)
    /\ wire' = [wire EXCEPT !.down = <<>>]
    /\ app' = [app EXCEPT !.recvAt = now]
    /\ UNCHANGED <<clients, now, server, nodes, call, codec>>

HB_ProcessSend ==
    /\ node.sock = "open"
    /\ LET r == process_send(node, now, Len(node.outBuf) + Len(node.out_data))
       IN  /\ node' = r.nd
           /\ wire' = [wire EXCEPT !.up = @ \o r.sent]
    /\ app' = [app EXCEPT !.sendAt = now]
    /\ UNCHANGED <<clients, now, server, nodes, call, codec>>

\* The application has something to say: send_msg("ALL", "x", 1), once it
\* knows its peers and the server has read all that was sent before.
HB_SendMsg ==
    /\ node.sock = "open"
    /\ node.peers # <<>>
    /\ node.outBuf = <<>>
    /\ wire.up = <<>>
    /\ \A k \in 1..Len(node.out_data) : node.out_data[k].msgs = <<>>
    /\ node' = send_msg(node, "ALL", "x", 1, FALSE).nd
    /\ UNCHANGED <<clients, now, wire, app, server, nodes, call, codec>>

HB_Tick ==
    /\ now < MaxHBTime
    /\ node.sock = "open" => (app.sendAt = now /\ app.recvAt = now)
    /\ ~wire.syn
    /\ Len(clients) = 1 => wire.up = <<>>
    /\ now' = now + 1
    /\ UNCHANGED <<clients, node, wire, app, server, nodes, call, codec>>

\* ----------------------------------------- two nodes and the server between
\* What _write_all sends reaches the node whose record holds it.
Deliver(ns, cl) ==
    [id \in NodeIds |->
        IF ns[id].place \in 1..Len(cl)
        THEN [ns[id] EXCEPT !.down = @ \o cl[ns[id].place].outb]
        ELSE ns[id]]

\* connect(host, id, "g", wait=False)
E2E_Connect ==
    /\ \E id \in NodeIds :
           /\ nodes[id].nd.sock = "none"
           /\ LET r == connect(nodes[id].nd, id, "g", now)
              IN  nodes' = [nodes EXCEPT ![id].nd = r.nd, ![id].syn = TRUE,
                                         ![id].up = @ \o r.sent]
    /\ UNCHANGED <<clients, now, node, wire, app, server, call, codec>>

E2E_Accept ==
    /\ \E id \in NodeIds :
           /\ nodes[id].syn
           /\ clients' = Append(clients, NewClient(now))
           /\ nodes' = [nodes EXCEPT ![id].syn = FALSE, ![id].place = Len(clients) + 1]
    /\ UNCHANGED <<now, node, wire, app, server, call, codec>>

\* loop(): a node's socket is readable; recv takes the first n frames.
E2E_Service ==
    /\ \E id \in NodeIds :
           /\ nodes[id].place > 0
           /\ \E n \in 1..Len(nodes[id].up) :
                  LET H == _service_read(clients, nodes[id].place,
                               [kind |-> "data", frames |-> SubSeq(nodes[id].up, 1, n)], now)
                  IN  /\ Len(H.clients) = Len(clients)
                      /\ clients' = _write_all(H.clients, [k \in 1..Len(H.clients) |-> "all"])
                      /\ nodes' = Deliver([nodes EXCEPT ![id].up = SubSeq(@, n + 1, Len(@))],
                                          H.clients)
    /\ UNCHANGED <<now, node, wire, app, server, call, codec>>

E2E_ProcessRecv ==
    /\ \E id \in NodeIds :
           /\ nodes[id].nd.sock = "open"
           /\ nodes' = [nodes EXCEPT ![id].nd = process_recv(@, nodes[id].down),
                                      ![id].down = <<>>]
    /\ UNCHANGED <<clients, now, node, wire, app, server, call, codec>>

E2E_ProcessSend ==
    /\ \E id \in NodeIds :
           /\ nodes[id].nd.sock = "open"
           /\ LET r == process_send(nodes[id].nd, now,
                                    Len(nodes[id].nd.outBuf) + Len(nodes[id].nd.out_data))
              IN  nodes' = [nodes EXCEPT ![id].nd = r.nd, ![id].up = @ \o r.sent]
    /\ UNCHANGED <<clients, now, node, wire, app, server, call, codec>>

\* host's application: send_msg("bob", "x", c, queue), c counting the
\* envelopes sent so far.
E2E_SendMsg ==
    /\ nodes["host"].nd.sock = "open"
    /\ Len(nodes["host"].sent) < MaxSend
    /\ \E queue \in BOOLEAN :
           LET c == Len(nodes["host"].sent) + 1
               r == send_msg(nodes["host"].nd, "bob", "x", c, queue)
           IN  nodes' = [nodes EXCEPT
                   !["host"].nd = r.nd,
                   !["host"].sent = IF r.ret
                                    THEN Append(@, [title |-> "x", content |-> c,
                                                    queue |-> queue])
                                    ELSE @]
    /\ UNCHANGED <<clients, now, node, wire, app, server, call, codec>>

\* bob's application: get_msg("host", "x")
E2E_GetMsg ==
    /\ nodes["bob"].nd.sock = "open"
    /\ LET r == get_msg(nodes["bob"].nd, "host", "x", TRUE)
       IN  nodes' = [nodes EXCEPT
               !["bob"].nd = r.nd,
               !["bob"].got = IF r.ret # NoMsg THEN Append(@, r.ret) ELSE @]
    /\ UNCHANGED <<clients, now, node, wire, app, server, call, codec>>

NextE2E ==
    \/ E2E_Connect \/ E2E_Accept \/ E2E_Service \/ E2E_ProcessRecv
    \/ E2E_ProcessSend \/ E2E_SendMsg \/ E2E_GetMsg

SpecE2E == Init /\ [][NextE2E]_vars

\* ------------------------------------------------ connect(wait=True)
\* _wait_for_connection with `while True` as its loop.
_wait_for_connection_forever(nd, c, t, received) ==
    LET nd1 == process_recv(nd, received)
    IN  IF Len(nd1.peers) > 0
        THEN [nd |-> nd1, call |-> [c EXCEPT !.pc = "done", !.ret = TRUE]]
        ELSE [nd |-> nd1, call |-> [c EXCEPT !.pc = "sleep"]]

\* One pass of the loop of _wait_for_connection at time t, the socket holding
\* the frames `received`: the test of the clock, process_recv, the test of
\* the peer list.  Gives the node and the call, which has returned (pc
\* "done", ret the value) or is in time.sleep(0.1) (pc "sleep").
_wait_for_connection(nd, c, t, received) ==
    IF t < c.end_time
    THEN LET nd1 == process_recv(nd, received)
         IN  IF Len(nd1.peers) > 0
             THEN [nd |-> nd1, call |-> [c EXCEPT !.pc = "done", !.ret = TRUE]]
             ELSE [nd |-> nd1, call |-> [c EXCEPT !.pc = "sleep"]]
    ELSE [nd |-> nd, call |-> [c EXCEPT !.pc = "done", !.ret = FALSE]]

\* The groups an application may ask for: one the server knows, one it does not.
WaitGroups == {"g", "x"}

\* connect(host, name, group, wait=wait): the socket, the AUTH frame and
\* process_send; then the call returns True (wait=False) or enters
\* _wait_for_connection with end_time = time.time() + timeout.
W_Connect ==
    /\ call.pc = "idle"
    /\ node.sock = "none"
    /\ now + CONNECT_TIMEOUT <= MaxWaitTime
    /\ \E name \in ReqNames : \E group \in WaitGroups : \E wait \in BOOLEAN :
           LET r == connect(node, name, group, now)
           IN  /\ node' = r.nd
               /\ wire' = [wire EXCEPT !.syn = TRUE, !.up = @ \o r.sent]
               /\ call' = IF wait
                          THEN [pc |-> "poll", wait |-> TRUE,
                                end_time |-> now + CONNECT_TIMEOUT, ret |-> FALSE]
                          ELSE [pc |-> "done", wait |-> FALSE, end_time |-> 0, ret |-> TRUE]
    /\ UNCHANGED <<clients, now, app, server, nodes, codec>>

W_Poll ==
    /\ call.pc = "poll"
    /\ LET r == _wait_for_connection(node, call, now, wire.down)
       IN  /\ node' = r.nd
           /\ call' = r.call
           /\ wire' = IF now < call.end_time THEN [wire EXCEPT !.down = <<>>] ELSE wire
    /\ UNCHANGED <<clients, now, app, server, nodes, codec>>

\* time.sleep(0.1) returns.
W_Sleep ==
    /\ call.pc = "sleep"
    /\ call' = [call EXCEPT !.pc = "poll"]
    /\ UNCHANGED <<clients, now, node, wire, app, server, nodes, codec>>

W_Tick ==
    /\ now < MaxWaitTime
    /\ now' = now + 1
    /\ UNCHANGED <<clients, node, wire, app, server, nodes, call, codec>>

\* ------------------------------------- one connection, counted in bytes
\* What one recv(1024) gives the server on the connection: 1024 bytes that
\* end inside a frame, or data that ends on a frame boundary and completes
\* one frame.
BufFrames ==
    {MkFrame(FRAME_TYPE_AUTH, SERVER_ADDR, UNKNOWN_ADDR, "a", "g", <<>>),
     MkFrame(FRAME_TYPE_HEART, SERVER_ADDR, FIRST_ADDR, "", "", <<>>)}

BufRecvOutcomes ==
    {[kind |-> "frag", frames |-> <<>>]}
    \cup {[kind |-> "data", frames |-> <<f>>] : f \in BufFrames}

BufSendOutcomes == {"all", "block"}

Buf_Accept ==
    /\ server = "running"
    /\ clients = <<>>
    /\ clients' = <<NewClient(now)>>
    /\ UNCHANGED <<now, node, wire, app, server, nodes, call, codec>>

\* _service_read, then _write_all: the client's socket takes all of outb,
\* or its send buffer is full and send raises BlockingIOError.
Buf_ServerRead ==
    /\ server = "running"
    /\ Len(clients) = 1
    /\ \E r \in BufRecvOutcomes : \E w \in BufSendOutcomes :
           LET H == _service_read(clients, 1, r, now)
           IN  clients' = _write_all(H.clients, [k \in 1..Len(H.clients) |-> w])
    /\ UNCHANGED <<now, node, wire, app, server, nodes, call, codec>>

Buf_NodeConnect ==
    /\ node.sock = "none"
    /\ node' = connect(node, "a", "g", now).nd
    /\ UNCHANGED <<clients, now, wire, app, server, nodes, call, codec>>

\* process_recv(): the socket holds 1024 bytes that end inside a frame.
Buf_NodeRecvFragment ==
    /\ node.sock = "open"
    /\ node.pend < MaxFragments * RECV_SIZE
    /\ node' = process_recv_fragment(node, RECV_SIZE)
    /\ UNCHANGED <<clients, now, wire, app, server, nodes, call, codec>>

\* process_recv(): the socket holds the end of a PEERS frame.
Buf_NodeRecv ==
    /\ node.sock = "open"
    /\ \E f \in NodePeersFrames(node.name) : node' = process_recv(node, <<f>>)
    /\ UNCHANGED <<clients, now, wire, app, server, nodes, call, codec>>

NextBuf ==
    Buf_Accept \/ Buf_ServerRead \/ Buf_NodeConnect \/ Buf_NodeRecvFragment \/ Buf_NodeRecv

SpecBuf == Init /\ [][NextBuf]_vars

NextHB ==
    \/ HB_Connect \/ HB_Accept \/ HB_Service \/ HB_Timeout
    \/ HB_ProcessRecv \/ HB_ProcessSend \/ HB_SendMsg \/ HB_Tick

SpecHB == Init /\ [][NextHB]_vars

\* The connect call against the server: the server accepts and reads when it
\* will; the call's own steps are taken, and the clock moves.
NextWait == W_Connect \/ HB_Accept \/ HB_Service \/ W_Poll \/ W_Sleep \/ W_Tick

SpecWait ==
    /\ Init
    /\ [][NextWait]_vars
    /\ WF_vars(W_Poll)
    /\ WF_vars(W_Sleep)
    /\ WF_vars(W_Tick)

\* ------------------------------------------------- the server, frame by frame
\* The handler as it stands when the record at place i is serviced, just
\* before and just after the last frame of chunk c is processed.
HandlerAt(i) == [clients |-> clients, pos |-> i, cur |-> clients[i], raised |-> ""]

BeforeLast(i, c) ==
    IF Len(c) = 1 THEN HandlerAt(i) ELSE _process_frame(HandlerAt(i), c[1], now)

AfterLast(i, c) == _process_frame(BeforeLast(i, c), c[Len(c)], now)

Places == 1..Len(clients)

\* The frame is one the server relays: a DATA frame from an authenticated
\* client that declares its allocated address.
Relayed(H, f) ==
    /\ f.type = FRAME_TYPE_DATA
    /\ Cur(H).group # ""
    /\ Cur(H).addr = f.sender

\* C1: any two distinct records of the client list that share a non-empty
\* group hold distinct addresses, each an integer of 1..254.
C1_AddressesUnique ==
    \A i \in Places :
        clients[i].group # "" =>
            /\ clients[i].addr \in 1..254
            /\ \A j \in Places :
                   (j # i /\ clients[j].group = clients[i].group)
                       => clients[j].addr # clients[i].addr

\* Two records of one group, the lower address held by the later record.
C1_Witness ==
    /\ Len(clients) = 2
    /\ clients[1].group # ""
    /\ clients[1].group = clients[2].group
    /\ clients[1].addr = 2
    /\ clients[2].addr = 1

\* C2: no two distinct records of one group hold the same name, and an AUTH
\* frame with a non-blank name that a record of that group already holds
\* disconnects its sender and leaves every other record as it was.
C2_NamesUnique ==
    /\ \A i, j \in Places :
           (i # j /\ clients[i].group # "" /\ clients[i].group = clients[j].group)
               => clients[i].name # clients[j].name
    /\ \A i \in Places, c \in Chunks :
           LET f == c[Len(c)]
               pre == BeforeLast(i, c)
               post == AfterLast(i, c)
           IN  (/\ f.type = FRAME_TYPE_AUTH
                /\ f.name # ""
                /\ \E k \in 1..Len(pre.clients) :
                       /\ pre.clients[k].name = f.name
                       /\ pre.clients[k].group = f.group)
               => /\ post.pos = 0
                  /\ post.clients = disconnect(pre.clients, pre.pos)
                  /\ Cur(post).name = Cur(pre).name
                  /\ Cur(post).group = Cur(pre).group
                  /\ Cur(post).addr = Cur(pre).addr

\* A record asks for the name that the other record of the list holds in
\* that group, and is removed while the holder stays as it was.
C2_Witness ==
    \E i \in Places, f \in AuthFrames :
        LET post == AfterLast(i, <<f>>)
        IN  /\ Len(clients) = 2
            /\ f.name # ""
            /\ \E k \in Places \ {i} :
                   /\ clients[k].name = f.name
                   /\ clients[k].group = f.group
                   /\ post.clients = <<clients[k]>>
            /\ post.pos = 0

\* C3: a relayed DATA frame with dest=255 from client A is appended to the
\* outbound buffer of every other client of A's group and never to A's own.
C3_BroadcastExcludesSender ==
    \A i \in Places, c \in Chunks :
        LET f == c[Len(c)]
            pre == BeforeLast(i, c)
            post == AfterLast(i, c)
        IN  (Relayed(pre, f) /\ f.dest = ALL_CLIENTS)
            => /\ Len(post.clients) = Len(pre.clients)
               /\ Cur(post).outb = Cur(pre).outb
               /\ \A k \in 1..Len(pre.clients) :
                      (k # pre.pos /\ pre.clients[k].group = Cur(pre).group)
                          => post.clients[k].outb = Append(pre.clients[k].outb, f)

\* A broadcast from one of two members of a group: the other member gets
\* the frame, the sender does not.
C3_Witness ==
    \E i \in Places, f \in DataFrames :
        LET post == AfterLast(i, <<f>>)
        IN  /\ Relayed(HandlerAt(i), f)
            /\ f.dest = ALL_CLIENTS
            /\ \E k \in Places \ {i} :
                   /\ clients[k].group = clients[i].group
                   /\ post.clients[k].outb = <<f>>
            /\ post.clients[i].outb = <<>>

\* C4: a DATA frame is appended only to the outbound buffer of records whose
\* group is the sender's (non-empty) group; a record with no group never
\* gets one.
C4_NoCrossGroupRelay ==
    \A i \in Places, c \in Chunks :
        LET f == c[Len(c)]
            pre == BeforeLast(i, c)
            post == AfterLast(i, c)
        IN  f.type = FRAME_TYPE_DATA
            => /\ Len(post.clients) = Len(pre.clients)
               /\ \A k \in 1..Len(pre.clients) :
                      post.clients[k].outb # pre.clients[k].outb
                          => /\ pre.clients[k].group # ""
                             /\ pre.clients[k].group = Cur(pre).group
               /\ (pre.pos = 0 \/ Cur(pre).group = "") => Cur(post).outb = Cur(pre).outb

\* Two records hold the same address in different groups; a frame addressed
\* to that address is relayed inside the sender's group (to the sender, who
\* holds it there) and the record of the other group gets nothing.
C4_Witness ==
    \E i \in Places, f \in DataFrames :
        LET post == AfterLast(i, <<f>>)
        IN  /\ Relayed(HandlerAt(i), f)
            /\ f.dest = clients[i].addr
            /\ post.clients[i].outb = <<f>>
            /\ \E k \in Places \ {i} :
                   /\ clients[k].group # ""
                   /\ clients[k].group # clients[i].group
                   /\ clients[k].addr = f.dest
                   /\ post.clients[k].outb = <<>>

\* C5: a relayed DATA frame with a specific dest is appended, unchanged, to
\* the outbound buffer of exactly the one record holding that address in the
\* sender's group; with no such record no outbound buffer changes.
C5_PointToPoint ==
    \A i \in Places, c \in Chunks :
        LET f == c[Len(c)]
            pre == BeforeLast(i, c)
            post == AfterLast(i, c)
            holders == {k \in 1..Len(pre.clients) :
                           /\ pre.clients[k].addr = f.dest
                           /\ pre.clients[k].group = Cur(pre).group}
        IN  (Relayed(pre, f) /\ f.dest # ALL_CLIENTS)
            => /\ Cardinality(holders) <= 1
               /\ Len(post.clients) = Len(pre.clients)
               /\ \A k \in 1..Len(pre.clients) :
                      post.clients[k].outb =
                          IF k \in holders THEN Append(pre.clients[k].outb, f)
                          ELSE pre.clients[k].outb
               /\ pre.pos = 0 => Cur(post).outb = Cur(pre).outb

\* One member of a group sends to the address of the other member.
C5_Witness ==
    \E i \in Places, f \in DataFrames :
        LET post == AfterLast(i, <<f>>)
        IN  /\ Relayed(HandlerAt(i), f)
            /\ f.dest # ALL_CLIENTS
            /\ \E k \in Places \ {i} :
                   /\ clients[k].group = clients[i].group
                   /\ clients[k].addr = f.dest
                   /\ post.clients[k].outb = <<f>>
            /\ post.clients[i].outb = <<>>

\* The (name, address) pairs of a group, as a PEERS frame would list them.
Membership(cl, group) == _get_peers_list(cl, group)

\* The frames appended to the outbound buffer of the record at place k of
\* `after`, which was at place j of `before`.
Appended(before, j, after, k) ==
    SubSeq(after[k].outb, Len(before[j].outb) + 1, Len(after[k].outb))

\* The place in `before` of the record at place k of `after`, when the
\* record at place gone (0: none) was removed in between.
PlaceBefore(k, gone) == IF gone > 0 /\ k >= gone THEN k + 1 ELSE k

\* C6 (as claimed): whenever a read event changes the membership of a group
\* (a record authenticates into it or a member is removed), every record
\* that remains in the group is sent a PEERS frame with the new membership.
C6_PeersOnEveryChange ==
    /\ \A i \in Places, r \in RecvOutcomes, g \in groups :
           LET H == _service_read(clients, i, r, now)
               gone == IF H.pos = 0 THEN i ELSE 0
           IN  Membership(H.clients, g) # Membership(clients, g)
               => \A k \in 1..Len(H.clients) :
                      H.clients[k].group = g
                          => \E n \in 1..Len(H.clients[k].outb) :
                                 /\ n > Len(clients[PlaceBefore(k, gone)].outb)
                                 /\ H.clients[k].outb[n].type = FRAME_TYPE_PEERS
                                 /\ H.clients[k].outb[n].data = Membership(H.clients, g)
    /\ \A g \in groups :
           LET after == disconnect_if_timeout(clients, now)
           IN  Membership(after, g) # Membership(clients, g)
               => \A k \in 1..Len(after) :
                      after[k].group = g
                          => \E n \in 1..Len(after[k].outb) :
                                 /\ after[k].outb[n].type = FRAME_TYPE_PEERS
                                 /\ after[k].outb[n].data = Membership(after, g)

\* C7 (as claimed): after one disconnect_if_timeout the client list holds no
\* record whose watchdog is older than 5 seconds.
C7_OneScanRemovesAllExpired ==
    LET after == disconnect_if_timeout(clients, now)
    IN  \A k \in 1..Len(after) : ~(after[k].watchDog < now - WATCHDOG_TIMEOUT)

\* C9 (as claimed): after the server processes a frame of any type, with any
\* declared sender, from a client whose group is set, that client's watchdog
\* equals the processing time.
C9_AnyFrameRefreshes ==
    \A i \in Places, c \in Chunks :
        LET f == c[Len(c)]
            pre == BeforeLast(i, c)
            post == AfterLast(i, c)
        IN  Cur(pre).group # "" => Cur(post).watchDog = now

\* C9 (amended): after the server processes a frame of any type other than
\* AUTH that declares the client's allocated address, from a client whose
\* group is set, that client's watchdog equals the processing time.
C9_GenuineFrameRefreshes ==
    \A i \in Places, c \in Chunks :
        LET f == c[Len(c)]
            pre == BeforeLast(i, c)
            post == AfterLast(i, c)
        IN  (/\ Cur(pre).group # ""
             /\ f.type # FRAME_TYPE_AUTH
             /\ f.sender = Cur(pre).addr)
            => Cur(post).watchDog = now

\* A record whose watchdog is old is refreshed by a heartbeat and by a
\* request frame that declare its address.
C9_Witness ==
    \E i \in Places :
        /\ clients[i].group # ""
        /\ clients[i].watchDog < now
        /\ \A ty \in {FRAME_TYPE_HEART, FRAME_TYPE_REQ, FRAME_TYPE_DATA} :
               LET f == MkFrame(ty, SERVER_ADDR, clients[i].addr, "", "", <<>>)
               IN  AfterLast(i, <<f>>).clients[i].watchDog = now

\* ------------------------------------------------------ the node's inbound store
\* The place of the last envelope of list m that bears the title, 0 if none.
LastWith(m, title) ==
    LET hits == {k \in 1..Len(m) : m[k].title = title}
    IN  IF hits = {} THEN 0 ELSE CHOOSE k \in hits : \A j \in hits : j <= k

\* The store for the pair (sender, title): the list under the pair, empty when absent.
StoreOf(nd, sender, title) ==
    IF sender \in DOMAIN nd.in_data /\ title \in DOMAIN nd.in_data[sender]
    THEN nd.in_data[sender][title]
    ELSE <<>>

\* C10: whatever the node's store holds, once process_recv has processed a
\* DATA frame, every (sender, title) pair whose most recent envelope had
\* queue=false holds exactly one value, the content of that envelope.
C10_OverwriteLeavesOne ==
    (node.sock = "open" /\ node.raised = "") =>
        \A f \in NodeDataFrames : \A t \in Titles :
            LET s == _get_name_from_addr(node, f.sender)
                k == LastWith(f.data, t)
            IN  (k > 0 /\ ~f.data[k].queue)
                    => StoreOf(process_recv(node, <<f>>), s, t) = <<f.data[k].content>>

\* Two queued values are unread under a pair when an envelope with
\* queue=false arrives for it, bearing another content; one value is left.
C10_Witness ==
    /\ node.sock = "open"
    /\ \E f \in NodeDataFrames : \E t \in Titles :
           LET s == _get_name_from_addr(node, f.sender)
               k == LastWith(f.data, t)
           IN  /\ k > 0
               /\ ~f.data[k].queue
               /\ Len(StoreOf(node, s, t)) > 1
               /\ \A j \in 1..Len(StoreOf(node, s, t)) :
                      StoreOf(node, s, t)[j] # f.data[k].content
               /\ StoreOf(process_recv(node, <<f>>), s, t) = <<f.data[k].content>>

\* ------------------------------------------------------------ the heartbeat
\* C8: once the node has processed its PEERS frame, the server's list keeps
\* its record: the watchdog value is always less than 5 seconds old and
\* disconnect_if_timeout removes nothing.
C8_NeverTimedOut ==
    node.my_addr # UNKNOWN_ADDR =>
        /\ Len(clients) = 1
        /\ now - clients[1].watchDog < WATCHDOG_TIMEOUT
        /\ disconnect_if_timeout(clients, now) = clients

\* The node has sent no message of its own, the clock has run to its end,
\* and the watchdog value is one that only a heartbeat can have set.
C8_Witness ==
    /\ node.my_addr # UNKNOWN_ADDR
    /\ node.out_data = <<>>
    /\ now = MaxHBTime
    /\ Len(clients) = 1
    /\ clients[1].watchDog > WATCHDOG_TIMEOUT + HEARTBEAT_PERIOD

\* ------------------------------------------------------------- end to end
\* Everything host has sent has reached bob's store.
Quiet ==
    /\ \A k \in 1..Len(nodes["host"].nd.out_data) : nodes["host"].nd.out_data[k].msgs = <<>>
    /\ nodes["host"].nd.outBuf = <<>>
    /\ nodes["host"].up = <<>>
    /\ nodes["bob"].down = <<>>
    /\ nodes["bob"].nd.inBuf = <<>>

\* The values n successive get_msg(sender, title) calls return.
RECURSIVE Drain(_, _, _, _)
Drain(nd, sender, title, n) ==
    IF n = 0 THEN <<>>
    ELSE LET r == get_msg(nd, sender, title, TRUE)
         IN  <<r.ret>> \o Drain(r.nd, sender, title, n - 1)

\* C11: host has sent n envelopes to bob under one title, all with
\* queue=true, in any batching; all have arrived and bob has read none.
\* Then available("host", title) is n, n successive get_msg calls return the
\* contents in send order, and the call after them returns None.
C11_QueueEndToEnd ==
    LET sent == nodes["host"].sent
        bob == nodes["bob"].nd
    IN  (Quiet /\ nodes["bob"].got = <<>> /\ \A k \in 1..Len(sent) : sent[k].queue)
            => /\ available(bob, "host", "x") = Len(sent)
               /\ Drain(bob, "host", "x", Len(sent) + 1)
                      = [k \in 1..Len(sent) + 1 |->
                            IF k <= Len(sent) THEN sent[k].content ELSE NoMsg]

\* Three queued envelopes have arrived unread.
C11_Witness ==
    /\ Quiet
    /\ nodes["bob"].got = <<>>
    /\ Len(nodes["host"].sent) = MaxSend
    /\ \A k \in 1..MaxSend : nodes["host"].sent[k].queue
    /\ available(nodes["bob"].nd, "host", "x") = MaxSend

\* C12: host has sent bob one envelope, with queue=false, and it has
\* arrived.  bob's get_msg("host", title) returns its content on the first
\* call and None on every call after it.
C12_SingleDelivery ==
    LET sent == nodes["host"].sent
        bob == nodes["bob"].nd
        got == nodes["bob"].got
    IN  (Quiet /\ Len(sent) = 1 /\ ~sent[1].queue)
            => IF got = <<>>
               THEN Drain(bob, "host", "x", MaxSend) =
                        [k \in 1..MaxSend |-> IF k = 1 THEN sent[1].content ELSE NoMsg]
               ELSE /\ got = <<sent[1].content>>
                    /\ Drain(bob, "host", "x", MaxSend) = [k \in 1..MaxSend |-> NoMsg]

\* bob has read the one envelope host sent.
C12_Witness ==
    /\ Quiet
    /\ Len(nodes["host"].sent) = 1
    /\ ~nodes["host"].sent[1].queue
    /\ nodes["bob"].got = <<nodes["host"].sent[1].content>>

\* ---------------------------------------------------------------- send_msg
\* The envelopes pending for a destination address.
Pending(nd, dest) ==
    LET hits == {k \in 1..Len(nd.out_data) : nd.out_data[k].dest = dest}
    IN  IF hits = {} THEN <<>> ELSE nd.out_data[CHOOSE k \in hits : TRUE].msgs

\* The destination addresses out_data has a list for.
Dests(nd) == {nd.out_data[k].dest : k \in 1..Len(nd.out_data)}

PeerNames(nd) == {nd.peers[k].name : k \in 1..Len(nd.peers)}

\* Names an application may pass to send_msg: the two nodes, "ALL", a stranger.
SendNames == NodeIds \cup {"ALL", "zed"}

\* C13: send_msg with a name that is neither in the peer map nor "ALL"
\* returns False and changes nothing; with a known name or "ALL" it returns
\* True, appends one envelope to the pending list of that destination and
\* changes nothing else, outBuf included.
C13_SendMsgDefers ==
    \A id \in NodeIds : \A name \in SendNames : \A e \in Envelopes :
        LET nd == nodes[id].nd
            r == send_msg(nd, name, e.title, e.content, e.queue)
            dest == IF name \in PeerNames(nd) THEN PeersGet(nd.peers, name) ELSE ALL_CLIENTS
        IN  IF name \notin PeerNames(nd) /\ name # "ALL"
            THEN r.ret = FALSE /\ r.nd = nd
            ELSE /\ r.ret = TRUE
                 /\ r.nd.outBuf = nd.outBuf
                 /\ [r.nd EXCEPT !.out_data = nd.out_data] = nd
                 /\ Pending(r.nd, dest) = Append(Pending(nd, dest), e)
                 /\ \A d \in Dests(nd) \cup Dests(r.nd) :
                        d # dest => Pending(r.nd, d) = Pending(nd, d)

\* host knows bob and already holds an envelope pending for it, while bob
\* does not yet know host.
C13_Witness ==
    /\ "bob" \in PeerNames(nodes["host"].nd)
    /\ Pending(nodes["host"].nd, PeersGet(nodes["host"].nd.peers, "bob")) # <<>>
    /\ "host" \notin PeerNames(nodes["bob"].nd)

\* ------------------------------------------------------- errors on the server
\* C14: a frame with a wrong version tag ends its own connection only: the
\* read that meets it removes the sender's record, leaves every other
\* record as it was, and the server goes on running.
C14_BadVersionFatalForOneOnly ==
    /\ server = "running"
    /\ \A i \in Places : \A b \in BadFrames :
           LET H == _service_read(clients, i, [kind |-> "data", frames |-> <<b>>], now)
           IN  H.raised = "" /\ H.clients = Remove(clients, i)

\* C15: a DATA frame from an authenticated client that declares a sender
\* other than the client's allocated address reaches no outbound buffer, and
\* the client's record stays in the list with its name, group and address.
C15_ForgedSenderDropped ==
    \A i \in Places : \A f \in DataFrames :
        (clients[i].group # "" /\ f.sender # clients[i].addr) =>
            LET H == _process_frame(HandlerAt(i), f, now)
            IN  /\ H.raised = ""
                /\ H.pos = i
                /\ Len(H.clients) = Len(clients)
                /\ \A k \in Places : H.clients[k].outb = clients[k].outb
                /\ H.clients[i].name = clients[i].name
                /\ H.clients[i].group = clients[i].group
                /\ H.clients[i].addr = clients[i].addr

\* Two clients share a group; one sends a DATA frame for the other that
\* declares the other's address as its sender.
C15_Witness ==
    \E i \in Places : \E k \in Places : \E f \in DataFrames :
        /\ i # k
        /\ clients[i].group # ""
        /\ clients[k].group = clients[i].group
        /\ f.sender = clients[k].addr
        /\ f.dest = clients[k].addr
        /\ _process_frame(HandlerAt(i), f, now).clients = clients

\* ------------------------------------------------------------ buffer limits
\* C16: a read that makes a client's inbound buffer longer than
\* IN_BUFFER_LIMIT removes the client's record and processes no frame; so
\* every record of the list holds at most IN_BUFFER_LIMIT inbound bytes.
C16_ServerInboundLimit ==
    /\ \A i \in Places : clients[i].pend <= IN_BUFFER_LIMIT
    /\ \A i \in Places : \A r \in BufRecvOutcomes :
           clients[i].pend + RECV_SIZE > IN_BUFFER_LIMIT =>
               LET H == _service_read(clients, i, r, now)
               IN  /\ H.clients = Remove(clients, i)
                   /\ H.pos = 0
                   /\ H.cur = clients[i]

\* An authenticated client's inbound buffer holds exactly IN_BUFFER_LIMIT
\* bytes: the next read ends the connection.
C16_Witness ==
    /\ Len(clients) = 1
    /\ clients[1].group # ""
    /\ clients[1].pend = IN_BUFFER_LIMIT
    /\ \A r \in BufRecvOutcomes : _service_read(clients, 1, r, now).clients = <<>>

\* C17: after any process_recv call the node's inbound buffer holds at
\* most 102400 bytes, or the node has closed its connection.
C17_NodeInboundLimit ==
    node.pend <= IN_BUFFER_LIMIT \/ node.sock = "closed"

\* C18: when the flush that follows a read finds that writing a client's
\* outbound buffer would block, the record stays in the list with its
\* outbound buffer as it was.
C18_WouldBlockKeepsClient ==
    \A i \in Places : \A r \in BufRecvOutcomes :
        LET H == _service_read(clients, i, r, now)
        IN  _write_all(H.clients, [k \in 1..Len(H.clients) |-> "block"]) = H.clients

\* ---------------------------------------------------------------- disconnect
\* The server removes the record of a client whose REQ frame it processes.
ServerHonoursDisconnectRequest ==
    \A i \in Places : \A f \in ReqFrames :
        (clients[i].group # "" /\ f.sender = clients[i].addr) =>
            _process_frame(HandlerAt(i), f, now).clients = Remove(clients, i)

\* C19: disconnect() on a connected node queues a REQ frame addressed to the
\* server, closes the socket and raises nothing; the server removes the
\* record of a client whose disconnect request it processes.
C19_DisconnectRequest ==
    /\ (node.sock = "open" /\ node.raised = "") =>
           LET nd == NodeDisconnect(node)
           IN  /\ nd.raised = ""
               /\ nd.sock = "closed"
               /\ nd.outBuf = _send_req(node, REQ_TYPE_DISCONNECT, <<>>).outBuf
    /\ ServerHonoursDisconnectRequest

\* ------------------------------------------------------------------ connect
\* What a connect call that has returned may have returned.
ConnectReturnsRight ==
    call.pc = "done" =>
        /\ ~call.wait => call.ret
        /\ (call.wait /\ call.ret) => Len(node.peers) > 0
        /\ (call.wait /\ ~call.ret) => now >= call.end_time

\* C20: connect(wait=True) always returns: True at a poll that finds the
\* peer list non-empty, False once the timeout has elapsed; connect with
\* wait=False returns True at once.
C20_ConnectTerminates ==
    /\ []ConnectReturnsRight
    /\ (call.pc = "poll") ~> (call.pc = "done")

\* The server has rejected the AUTH and removed the record; the call has
\* polled until the timeout and returned False.
C20_Witness ==
    /\ call.pc = "done"
    /\ call.wait
    /\ ~call.ret
    /\ clients = <<>>
    /\ ~wire.syn
    /\ wire.up = <<>>

\* ------------------------------------------- the codec and the byte stream
MaxFrames == 2
MaxChunk == 3
MaxStr == 250

\* The frames handed to _encode_frame.
CodecFrames ==
    {[dest |-> <<ALL_CLIENTS>>, type |-> <<FRAME_TYPE_DATA>>, meta |-> NoneBytes,
      data |-> [kind |-> "int", n |-> 10]],
     [dest |-> <<SERVER_ADDR>>, type |-> <<FRAME_TYPE_HEART>>, meta |-> NoneBytes,
      data |-> [kind |-> "null", n |-> 0]],
     [dest |-> <<FIRST_ADDR>>, type |-> <<FRAME_TYPE_REQ>>, meta |-> <<FRAME_TYPE_SYSM>>,
      data |-> [kind |-> "absent", n |-> 0]],
     [dest |-> <<FIRST_ADDR>>, type |-> <<FRAME_TYPE_DATA>>, meta |-> NoneBytes,
      data |-> [kind |-> "str", n |-> MaxStr]]}

CodecStreams ==
    UNION {[1..k -> CodecFrames] : k \in 1..MaxFrames}

\* A node's buffer is filled by the server; the server's by a node that has
\* its address or does not have it yet.
CodecSides ==
    {[side |-> "node", my_addr |-> <<SERVER_ADDR>>],
     [side |-> "server", my_addr |-> <<UNKNOWN_ADDR>>],
     [side |-> "server", my_addr |-> <<FIRST_ADDR>>]}

\* recv() returns any number of the bytes in flight.
ChunkSizes(l) == {n \in 1..l : n <= MaxChunk \/ n = l}

InitCodec ==
    /\ clients = <<>>
    /\ now = 0
    /\ node = NewNode(0)
    /\ wire = NoWire
    /\ app = [sendAt |-> 0, recvAt |-> 0]
    /\ server = "running"
    /\ nodes = [id \in NodeIds |-> NewEndpoint]
    /\ call = NoCall
    /\ codec \in {[NoCodec EXCEPT !.side = s.side, !.my_addr = s.my_addr, !.frames = fs] :
                    s \in CodecSides, fs \in CodecStreams}

\* The sending side encodes its next frame and writes it to the socket.
Codec_Send ==
    /\ codec.frames # <<>>
    /\ LET b == _encode_frame(Head(codec.frames), codec.my_addr)
       IN  codec' = [codec EXCEPT !.frames = Tail(@),
                                  !.sent = Append(@, Head(codec.frames)),
                                  !.all = @ \o b,
                                  !.stream = @ \o b]
    /\ UNCHANGED <<clients, now, node, wire, app, server, nodes, call>>

\* The receiving side reads a chunk and extracts the frames it holds.
Codec_Recv ==
    /\ codec.raised = ""
    /\ \E n \in ChunkSizes(Len(codec.stream)) :
          codec' = Receive([codec EXCEPT !.stream = Slice(@, n, Len(@))],
                           Slice(codec.stream, 0, n))
    /\ UNCHANGED <<clients, now, node, wire, app, server, nodes, call>>

NextCodec == Codec_Send \/ Codec_Recv

SpecCodec == InitCodec /\ [][NextCodec]_vars

\* What decoding an encoded frame f of a party at my_addr has to give.
PayloadOf(f) == IF f.data.kind = "absent" THEN <<>> ELSE _dumps(f.data)

Decoded(f, my_addr) ==
    [raised |-> "", version |-> VERSION_BYTES, dest |-> f.dest, sender |-> my_addr,
     type |-> f.type, meta |-> IF f.meta = NoneBytes THEN <<0>> ELSE f.meta,
     data |-> PayloadOf(f)]

\* C21: decoding the bytes that encoding a frame produced gives back its
\* dest, type, meta (0 for None) and payload bytes, with the encoder's own
\* address as sender, and the first four bytes are 11 plus the payload size.
C21_CodecRoundTrip ==
    \A i \in 1..Len(codec.sent) :
        LET f == codec.sent[i]
            b == _encode_frame(f, codec.my_addr)
        IN  /\ _decode_frame(b) = Decoded(f, codec.my_addr)
            /\ from_bytes(Slice(b, 0, 4)) = HEADER_SIZE + Len(PayloadOf(f))
            /\ Len(b) = HEADER_SIZE + Len(PayloadOf(f))
            /\ i <= Len(codec.got) => codec.got[i] = Decoded(f, codec.my_addr)

C21_Witness ==
    /\ Len(codec.got) = MaxFrames
    /\ \E i \in 1..Len(codec.sent) :
          /\ codec.sent[i].meta = NoneBytes
          /\ HEADER_SIZE + Len(PayloadOf(codec.sent[i])) > ALL_CLIENTS
    /\ \E i \in 1..Len(codec.sent) : codec.sent[i].data.kind = "absent"

\* The receiving side after the bytes fed are handed to it in one piece.
Whole(fed) == Receive([NoCodec EXCEPT !.side = codec.side], fed)

Fed == Slice(codec.all, 0, Len(codec.all) - Len(codec.stream))

RECURSIVE FrameBytes(_)
FrameBytes(got) ==
    IF got = <<>> THEN 0 ELSE HEADER_SIZE + Len(Head(got).data) + FrameBytes(Tail(got))

\* C22: whatever the chunks the bytes arrived in, the frames extracted are
\* the frames extracted from the same bytes arriving at once, they are the
\* frames sent, and the buffer holds the bytes after them, unchanged.
C22_ChunkedExtraction ==
    /\ codec.got = Whole(Fed).got
    /\ codec.inBuf = Whole(Fed).inBuf
    /\ codec.inBuf = Slice(Fed, FrameBytes(codec.got), Len(Fed))
    /\ IF Len(codec.got) = Len(codec.sent) THEN codec.inBuf = <<>>
       ELSE Len(codec.inBuf) < HEADER_SIZE + Len(PayloadOf(codec.sent[Len(codec.got) + 1]))
    /\ \A i \in 1..Len(codec.got) : codec.got[i] = Decoded(codec.sent[i], codec.my_addr)
    /\ codec.raised = ""

\* A frame lies in the buffer incomplete, cut after its header, behind one
\* already extracted.
C22_Witness ==
    /\ Len(codec.got) = 1
    /\ Len(codec.inBuf) > HEADER_SIZE
    /\ codec.stream # <<>>
    /\ codec.frames = <<>>

\* ------------------------------------------------------ names for the blank
\* The names held in a group by the records of the list.
NamesIn(cl, group) == {cl[k].name : k \in {j \in 1..Len(cl) : cl[j].group = group}}

\* The pool names with the suffix a, a in 1..254, in the order tried.
Suffixed == [n \in 1..((ADDR_STOP - 1) * Len(_RANDOM_NAMES)) |->
                _RANDOM_NAMES[((n - 1) % Len(_RANDOM_NAMES)) + 1]
                    \o ToString(((n - 1) \div Len(_RANDOM_NAMES)) + 1)]

\* The first name of a sequence that is not in use.
FirstUnused(names, used) ==
    names[CHOOSE j \in 1..Len(names) :
              /\ names[j] \notin used
              /\ \A i \in 1..(j - 1) : names[i] \in used]

\* C23: an AUTH frame with a blank name and a whitelisted group gives the
\* client the first pool name not in use in the group, or, when all are in
\* use, the first suffixed pool name not in use; no other record of the
\* group holds that name, before the frame or after it.
C23_BlankNameIsFresh ==
    \A i \in Places, c \in Chunks :
        LET f == c[Len(c)]
            pre == BeforeLast(i, c)
            post == AfterLast(i, c)
            used == NamesIn(pre.clients, f.group)
        IN  (f.type = FRAME_TYPE_AUTH /\ f.name = "" /\ f.group \in groups
                 /\ pre.raised = "")
            => /\ Cur(post).group = f.group
               /\ Cur(post).name # ""
               /\ Cur(post).name =
                     IF \E j \in 1..Len(_RANDOM_NAMES) : _RANDOM_NAMES[j] \notin used
                     THEN FirstUnused(_RANDOM_NAMES, used)
                     ELSE FirstUnused(Suffixed, used)
               /\ \A k \in 1..Len(post.clients) :
                      (k # post.pos /\ post.clients[k].group = f.group)
                          => post.clients[k].name # Cur(post).name
               /\ \A k \in 1..Len(pre.clients) :
                      (k # pre.pos /\ pre.clients[k].group = f.group)
                          => pre.clients[k].name # Cur(post).name

\* All pool names are in use in the group: the client is given a suffixed one.
C23_Witness ==
    \E i \in Places, c \in Chunks :
        LET f == c[Len(c)]
            pre == BeforeLast(i, c)
            post == AfterLast(i, c)
        IN  /\ f.type = FRAME_TYPE_AUTH /\ f.name = "" /\ f.group \in groups
            /\ pre.raised = ""
            /\ \A j \in 1..Len(_RANDOM_NAMES) :
                   \E k \in 1..Len(pre.clients) :
                       /\ k # i
                       /\ pre.clients[k].group = f.group
                       /\ pre.clients[k].name = _RANDOM_NAMES[j]
            /\ post.pos = i
            /\ post.clients[i].name = _RANDOM_NAMES[1] \o "1"

\* ------------------------------------------------------------ title pruning
\* The (sender, title) pairs of the store whose queue is empty.
EmptyQueues(nd) ==
    {<<s, t>> \in UNION {{<<s2, t2>> : t2 \in DOMAIN nd.in_data[s2]} : s2 \in DOMAIN nd.in_data} :
        nd.in_data[s][t] = <<>>}

\* C24 (as claimed): when get_msg or get_all_msgs, called with clear=true,
\* returns, the store holds no (sender, title) pair with an empty queue.
C24_NoEmptyQueueAfterClear ==
    node.sock = "open" =>
        \A s \in Senders, t \in Titles :
            /\ EmptyQueues(get_msg(node, s, t, TRUE).nd) = {}
            /\ EmptyQueues(get_all_msgs(node, s, t, TRUE).nd) = {}

\* ------------------------------------------------------- groups not allowed
\* C25: an AUTH frame naming a group that is not whitelisted removes the
\* client's record from the list; the record keeps the name, group and
\* address it had (none, for a client that never authenticated), nothing is
\* appended to any outbound buffer, and the other records are unchanged.
C25_UnknownGroupRejected ==
    \A i \in Places, c \in Chunks :
        LET f == c[Len(c)]
            pre == BeforeLast(i, c)
            post == AfterLast(i, c)
        IN  (f.type = FRAME_TYPE_AUTH /\ f.group \notin groups /\ pre.raised = "")
            => /\ post.pos = 0
               /\ post.raised = ""
               /\ post.clients = disconnect(pre.clients, pre.pos)
               /\ Cur(post) = Cur(pre)
               /\ (Len(c) = 1 /\ clients[i].group = "")
                      => /\ Cur(post).name = ""
                         /\ Cur(post).group = ""
                         /\ Cur(post).addr = UNKNOWN_ADDR
                         /\ Cur(post).outb = <<>>

\* A client asks for a group that is not whitelisted while another client
\* is a member of a group: the asking record leaves the list.
C25_Witness ==
    \E i \in Places, k \in Places, f \in AuthFrames :
        /\ k # i
        /\ clients[k].group # ""
        /\ clients[i].group = ""
        /\ f.group \notin groups
        /\ _process_frame(HandlerAt(i), f, now).pos = 0
        /\ _process_frame(HandlerAt(i), f, now).clients = <<clients[k]>>

\* ------------------------------------------------- PEERS on authentication
\* _process_authframe reaches 'Auth passed' and finds a free address.
AuthPasses(H, f) ==
    /\ f.type = FRAME_TYPE_AUTH
    /\ H.raised = ""
    /\ f.group \in groups
    /\ f.name # "" => \A k \in 1..Len(H.clients) :
                          ~(H.clients[k].name = f.name /\ H.clients[k].group = f.group)
    /\ \E a \in FIRST_ADDR..(ADDR_STOP - 1) :
           \A k \in 1..Len(H.clients) :
               ~(H.clients[k].addr = a /\ H.clients[k].group = f.group)

\* The PEERS frames among the frames appended to place k.
PeersAppended(pre, post, k) ==
    SelectSeq(Appended(pre.clients, k, post.clients, k),
              LAMBDA e : e.type = FRAME_TYPE_PEERS)

\* The (name, address) pairs of the records of the list that are in a group.
GroupPairs(cl, group) ==
    {[name |-> cl[k].name, addr |-> cl[k].addr] :
        k \in {j \in 1..Len(cl) : cl[j].group = group}}

\* The record the AUTH frame came from is in its group, with every member
\* of the group sent one PEERS frame that lists the members, each once.
PeersToWholeGroup(pre, post, f) ==
    /\ Cur(post).group = f.group
    /\ Len(post.clients) = Len(pre.clients)
    /\ \A k \in 1..Len(post.clients) :
           IF post.clients[k].group = f.group
           THEN /\ Len(PeersAppended(pre, post, k)) = 1
                /\ Range(PeersAppended(pre, post, k)[1].data)
                       = GroupPairs(post.clients, f.group)
                /\ Len(PeersAppended(pre, post, k)[1].data)
                       = Cardinality(GroupPairs(post.clients, f.group))
           ELSE PeersAppended(pre, post, k) = <<>>

\* C26 (as claimed): every AUTH frame that passes has every client of the
\* group, the one that sent it included, sent one PEERS frame listing
\* exactly the records of the group.
C26_PeersOnEveryAuth ==
    \A i \in Places, c \in Chunks :
        LET f == c[Len(c)]
            pre == BeforeLast(i, c)
            post == AfterLast(i, c)
        IN  AuthPasses(pre, f)
            => /\ post.pos = i
               /\ PeersToWholeGroup(pre, post, f)

\* What holds: the same, for the AUTH frames of a client whose record is in
\* the list when the frame is processed.
C26_PeersOnAuthOfListed ==
    \A i \in Places, c \in Chunks :
        LET f == c[Len(c)]
            pre == BeforeLast(i, c)
            post == AfterLast(i, c)
        IN  (AuthPasses(pre, f) /\ pre.pos = i)
            => /\ post.pos = i
               /\ PeersToWholeGroup(pre, post, f)

\* ------------------------------------------------ the name the server chose
\* A node that has called connect(host, "", group) and sent its AUTH frame.
BlankNode(group) == connect(NewNode(now), "", group, now)

\* The frames that processing the AUTH frame of BlankNode(group) for the
\* record at place i appends to that record's outbound buffer.
AuthReply(i, group) ==
    LET post == _process_frame(HandlerAt(i), BlankNode(group).sent[1], now)
    IN  SubSeq(Cur(post).outb, Len(clients[i].outb) + 1, Len(Cur(post).outb))

\* C27: a client that authenticates with a blank name is sent the SYSM frame
\* with its name and then the PEERS frame; a node that processes the two, in
\* one process_recv call or in two, has the name and the address of the
\* server's record.
C27_NameBeforePeers ==
    \A i \in Places, g \in groups :
        clients[i].group = "" =>
            LET post == _process_frame(HandlerAt(i), BlankNode(g).sent[1], now)
                reply == AuthReply(i, g)
                nd1 == process_recv(BlankNode(g).nd, reply)
                nd2 == process_recv(process_recv(BlankNode(g).nd, <<reply[1]>>),
                                    <<reply[2]>>)
            IN  /\ post.pos = i
                /\ Len(reply) = 2
                /\ reply[1].type = FRAME_TYPE_SYSM
                /\ reply[2].type = FRAME_TYPE_PEERS
                /\ nd1 = nd2
                /\ nd1.raised = ""
                /\ nd1.name = post.clients[i].name
                /\ nd1.name # ""
                /\ nd1.my_addr = post.clients[i].addr
                /\ nd1.my_addr \in FIRST_ADDR..(ADDR_STOP - 1)

\* The pool's first name is taken in the group, so the server chooses a
\* suffixed name and the second address, and the node learns both.
C27_Witness ==
    \E i \in Places, k \in Places, g \in groups :
        /\ clients[i].group = ""
        /\ clients[k].group = g
        /\ clients[k].name = _RANDOM_NAMES[1]
        /\ clients[k].addr = FIRST_ADDR
        /\ process_recv(BlankNode(g).nd, AuthReply(i, g)).name = _RANDOM_NAMES[1] \o "1"
        /\ process_recv(BlankNode(g).nd, AuthReply(i, g)).my_addr = FIRST_ADDR + 1

\* ------------------------------------------------- before authentication
\* C28: a DATA, HEART or REQ frame of this protocol version from a client
\* whose group is unset changes nothing: the client's name, group, address
\* and watchdog, the other records and every outbound buffer are as they
\* were, and the client's record stays where it was.
C28_UnauthenticatedIgnored ==
    \A i \in Places, c \in Chunks :
        LET f == c[Len(c)]
            pre == BeforeLast(i, c)
            post == AfterLast(i, c)
        IN  (/\ pre.raised = ""
             /\ Cur(pre).group = ""
             /\ f.type # FRAME_TYPE_AUTH
             /\ f.version = VERSION)
            => /\ post.raised = ""
               /\ post.pos = pre.pos
               /\ post.clients = pre.clients
               /\ Cur(post) = Cur(pre)

\* A client that has not authenticated, its watchdog old, sends a DATA frame
\* for all and one for the address of a member of a group, declaring the
\* address its record holds: the list is as it was.
C28_Witness ==
    \E i \in Places, k \in Places :
        /\ clients[i].group = ""
        /\ clients[i].watchDog < now
        /\ clients[k].group # ""
        /\ \A d \in {clients[k].addr, ALL_CLIENTS} :
               LET f == MkFrame(FRAME_TYPE_DATA, d, clients[i].addr, "", "", <<>>)
               IN  /\ f \in DataFrames
                   /\ _process_frame(HandlerAt(i), f, now).clients = clients

\* ------------------------------------------------------- eventual eviction
\* main alternates loop(1) and disconnect_if_timeout() for as long as the
\* process lives, and the clock moves: the timeout check and the clock are
\* not put off for ever.
SpecEvict ==
    /\ Init
    /\ [][Next]_vars
    /\ WF_vars(DisconnectIfTimeout)
    /\ WF_vars(Tick)

\* The record at place k has had no refreshing frame for more than 5 seconds.
Stale(k) ==
    /\ k <= Len(clients)
    /\ clients[k].watchDog < now - WATCHDOG_TIMEOUT

\* Every PEERS frame that processing a frame appends lists records that are
\* in the client list, in the group of the record it is sent to, and no
\* one else.
PeersListTheListed ==
    \A i \in Places, c \in Chunks :
        LET pre == BeforeLast(i, c)
            post == AfterLast(i, c)
            gone == IF pre.pos > 0 /\ post.pos = 0 THEN pre.pos ELSE 0
        IN  \A k \in 1..Len(post.clients) :
                LET new == Appended(pre.clients, PlaceBefore(k, gone), post.clients, k)
                IN  \A n \in 1..Len(new) :
                        new[n].type = FRAME_TYPE_PEERS
                            => /\ post.clients[k].group # ""
                               /\ Range(new[n].data) =
                                      GroupPairs(post.clients, post.clients[k].group)

\* C29: while the server runs, a place of the client list that holds a
\* record not refreshed for more than 5 seconds comes to hold none such (a
\* record moves only towards the front of the list, so every such record is
\* removed unless a frame refreshes it), and the PEERS frames built list
\* only records that are in the list.
C29_EventualEviction ==
    /\ []PeersListTheListed
    /\ \A k \in 1..MaxClients :
           (Stale(k) /\ server = "running") ~> (~Stale(k) \/ server # "running")

\* Two records are stale, one a member of a group and one that never
\* authenticated; the check removes a record, and the peers of the group
\* no longer hold the member.
C29_Witness ==
    /\ server = "running"
    /\ \E k \in Places : Stale(k) /\ clients[k].group = ""
    /\ \E k \in Places :
           /\ Stale(k)
           /\ clients[k].group # ""
           /\ LET after == disconnect_if_timeout(clients, now)
              IN  /\ Len(after) < Len(clients)
                  /\ [name |-> clients[k].name, addr |-> clients[k].addr]
                         \notin GroupPairs(after, clients[k].group)

\* ------------------------------------------ a node and what it has to send
MaxQueued == 3

\* The envelopes pending in out_data and the frames waiting in outBuf.
RECURSIVE PendingCount(_)
PendingCount(out_data) ==
    IF out_data = <<>> THEN 0
    ELSE Len(Head(out_data).msgs) + PendingCount(Tail(out_data))

\* process_recv(): the server's SYSM or PEERS frame has arrived.
S_Recv ==
    /\ node.sock = "open"
    /\ node.raised = ""
    /\ \E f \in NodePeersFrames(node.name) \cup NodeSysmFrames(node.name) :
           node' = process_recv(node, <<f>>)
    /\ UNCHANGED <<clients, now, wire, app, server, nodes, call, codec>>

\* The application calls send_msg for the peer, for all, or for a stranger;
\* the content counts the envelopes pending.
S_SendMsg ==
    /\ node.sock = "open"
    /\ node.raised = ""
    /\ PendingCount(node.out_data) + Len(node.outBuf) < MaxQueued
    /\ \E name \in {"b", "ALL", "zed"} :
           node' = send_msg(node, name, "x", PendingCount(node.out_data) + 1, TRUE).nd
    /\ UNCHANGED <<clients, now, wire, app, server, nodes, call, codec>>

\* The application calls process_send(); the socket takes nothing, one
\* frame, or all there is.
S_ProcessSend ==
    /\ node.sock = "open"
    /\ node.raised = ""
    /\ \E n \in {0, 1, MaxQueued} : node' = process_send(node, now, n).nd
    /\ UNCHANGED <<clients, now, wire, app, server, nodes, call, codec>>

NextSend == NodeConnect \/ S_Recv \/ S_SendMsg \/ S_ProcessSend \/ Tick

SpecSend == Init /\ [][NextSend]_vars

\* The frames one process_send call appends to outBuf.
Emitted(nd, r) ==
    SubSeq(r.sent \o r.nd.outBuf, Len(nd.outBuf) + 1, Len(r.sent) + Len(r.nd.outBuf))

\* C30: a process_send call appends to outBuf, for every destination whose
\* pending list is not empty, one DATA frame from this node to that
\* destination holding the whole list in order, and no other DATA frame;
\* afterwards every pending list is empty.
C30_OneFramePerDestination ==
    node.sock = "open" =>
        \A n \in 0..MaxQueued :
            LET r == process_send(node, now, n)
                data == SelectSeq(Emitted(node, r), LAMBDA e : e.type = FRAME_TYPE_DATA)
            IN  /\ \A d \in Dests(node) :
                       LET to == SelectSeq(data, LAMBDA e : e.dest = d)
                       IN  IF Pending(node, d) # <<>>
                           THEN /\ Len(to) = 1
                                /\ to[1].data = Pending(node, d)
                                /\ to[1].sender = node.my_addr
                           ELSE to = <<>>
                /\ \A k \in 1..Len(data) : data[k].dest \in Dests(node)
                /\ Dests(r.nd) = Dests(node)
                /\ \A d \in Dests(r.nd) : Pending(r.nd, d) = <<>>
                /\ IF node.outBuf = <<>> /\ data = <<>>
                   THEN \A k \in 1..Len(Emitted(node, r)) :
                            Emitted(node, r)[k].type = FRAME_TYPE_HEART
                   ELSE Emitted(node, r) = data

\* Two envelopes are pending for the peer and one for all, and process_send
\* turns them into two frames.
C30_Witness ==
    /\ node.sock = "open"
    /\ \E d \in Dests(node) : Len(Pending(node, d)) = 2
    /\ Len(Pending(node, ALL_CLIENTS)) = 1
    /\ Len(Emitted(node, process_send(node, now, 0))) = 2

\* --------------------------------------------------------- the peer map
\* C31: after process_recv has processed a PEERS frame that lists the node,
\* the node's peer map is the frame's list, entry for entry and in its
\* order, get_peers() gives its names, and my_addr is the address the list
\* gives for the node's name.
C31_PeersReplaced ==
    (node.sock = "open" /\ node.raised = "" /\ node.name # "") =>
        \A f \in NodePeersFrames(node.name) :
            LET nd == process_recv(node, <<f>>)
            IN  /\ nd.raised = ""
                /\ nd.peers = f.data
                /\ get_peers(nd) = [k \in 1..Len(f.data) |-> f.data[k].name]
                /\ \E k \in 1..Len(f.data) :
                       /\ f.data[k].name = nd.name
                       /\ f.data[k].addr = nd.my_addr
                /\ nd.name = node.name

\* The node knows itself and the peer "b", and a PEERS frame arrives that
\* lists the node alone: "b" is gone from the map.
C31_Witness ==
    /\ node.sock = "open"
    /\ node.raised = ""
    /\ node.name # ""
    /\ Len(node.peers) = 2
    /\ \E f \in NodePeersFrames(node.name) :
           /\ Len(f.data) = 1
           /\ get_peers(process_recv(node, <<f>>)) = <<node.name>>

\* --------------------------------------------- an address that changes hands
\* Three nodes and the server.  host and bob join group "g"; bob's
\* connection may close, after which carol may join.  host's application
\* sends to "bob" by name.
MaxReuseSend == 1

ReuseIds == {"host", "bob", "carol"}

InitReuse ==
    /\ clients = <<>>
    /\ now = 0
    /\ node = NewNode(0)
    /\ wire = NoWire
    /\ app = [sendAt |-> 0, recvAt |-> 0]
    /\ server = "running"
    /\ nodes = [id \in ReuseIds |-> NewEndpoint]
    /\ call = NoCall
    /\ codec = NoCodec

\* What _write_all sends reaches the node whose record holds it.
DeliverAll(ns, cl) ==
    [id \in DOMAIN ns |->
        IF ns[id].place \in 1..Len(cl)
        THEN [ns[id] EXCEPT !.down = @ \o cl[ns[id].place].outb]
        ELSE ns[id]]

\* The places of the nodes' records once the record at place p is removed.
Unplace(ns, p) ==
    [id \in DOMAIN ns |->
        [ns[id] EXCEPT !.place = IF @ = p THEN 0 ELSE IF @ > p THEN @ - 1 ELSE @]]

\* bob's record has been in the list and is there no more.
BobGone ==
    /\ nodes["bob"].nd.sock = "closed"
    /\ nodes["bob"].place = 0

\* The names the nodes ask for: the server takes any name that is not in
\* use in the group, "ALL" included.
ReuseNames(id) == IF id = "carol" THEN {"carol", "ALL"} ELSE {id}

\* connect(host, name, "g", wait=False); carol arrives when bob has left.
R_Connect ==
    /\ \E id \in ReuseIds :
           /\ nodes[id].nd.sock = "none"
           /\ id = "carol" => BobGone
           /\ \E name \in ReuseNames(id) :
                  LET r == connect(nodes[id].nd, name, "g", now)
                  IN  nodes' = [nodes EXCEPT ![id].nd = r.nd, ![id].syn = TRUE,
                                             ![id].up = @ \o r.sent]
    /\ UNCHANGED <<clients, now, node, wire, app, server, call, codec>>

R_Accept ==
    /\ \E id \in ReuseIds :
           /\ nodes[id].syn
           /\ clients' = Append(clients, NewClient(now))
           /\ nodes' = [nodes EXCEPT ![id].syn = FALSE, ![id].place = Len(clients) + 1]
    /\ UNCHANGED <<now, node, wire, app, server, call, codec>>

\* loop(): a node's socket is readable; recv takes the first n frames.
R_Service ==
    /\ \E id \in ReuseIds :
           /\ nodes[id].place > 0
           /\ \E n \in 1..Len(nodes[id].up) :
                  LET H == _service_read(clients, nodes[id].place,
                               [kind |-> "data", frames |-> SubSeq(nodes[id].up, 1, n)], now)
                  IN  /\ Len(H.clients) = Len(clients)
                      /\ clients' = _write_all(H.clients, [k \in 1..Len(H.clients) |-> "all"])
                      /\ nodes' = DeliverAll([nodes EXCEPT ![id].up = SubSeq(@, n + 1, Len(@))],
                                             H.clients)
    /\ UNCHANGED <<now, node, wire, app, server, call, codec>>

\* bob's process ends and its socket closes: the server's recv returns b''
\* and _service_read disconnects the record.
R_Close ==
    /\ nodes["bob"].nd.sock = "open"
    /\ nodes["bob"].place > 0
    /\ nodes["bob"].up = <<>>
    /\ LET H == _service_read(clients, nodes["bob"].place,
                              [kind |-> "eof", frames |-> <<>>], now)
       IN  /\ clients' = _write_all(H.clients, [k \in 1..Len(H.clients) |-> "all"])
           /\ nodes' = DeliverAll(Unplace([nodes EXCEPT !["bob"].nd.sock = "closed"],
                                          nodes["bob"].place),
                                  H.clients)
    /\ UNCHANGED <<now, node, wire, app, server, call, codec>>

R_ProcessRecv ==
    /\ \E id \in ReuseIds :
           /\ nodes[id].nd.sock = "open"
           /\ nodes[id].down # <<>>
           /\ nodes' = [nodes EXCEPT ![id].nd = process_recv(@, nodes[id].down),
                                      ![id].down = <<>>]
    /\ UNCHANGED <<clients, now, node, wire, app, server, call, codec>>

R_ProcessSend ==
    /\ \E id \in ReuseIds :
           /\ nodes[id].nd.sock = "open"
           /\ PendingCount(nodes[id].nd.out_data) + Len(nodes[id].nd.outBuf) > 0
           /\ LET r == process_send(nodes[id].nd, now,
                                    Len(nodes[id].nd.outBuf) + Len(nodes[id].nd.out_data))
              IN  nodes' = [nodes EXCEPT ![id].nd = r.nd, ![id].up = @ \o r.sent]
    /\ UNCHANGED <<clients, now, node, wire, app, server, call, codec>>

\* host's application: send_msg("bob", "x", 1, queue=True), which is
\* recorded when it returns True.
R_SendMsg ==
    /\ nodes["host"].nd.sock = "open"
    /\ Len(nodes["host"].sent) < MaxReuseSend
    /\ LET r == send_msg(nodes["host"].nd, "bob", "x", 1, TRUE)
       IN  /\ r.ret
           /\ nodes' = [nodes EXCEPT
                  !["host"].nd = r.nd,
                  !["host"].sent = Append(@, [title |-> "x", content |-> 1,
                                              queue |-> TRUE])]
    /\ UNCHANGED <<clients, now, node, wire, app, server, call, codec>>

NextReuse ==
    \/ R_Connect \/ R_Accept \/ R_Service \/ R_Close
    \/ R_ProcessRecv \/ R_ProcessSend \/ R_SendMsg

SpecReuse == InitReuse /\ [][NextReuse]_vars

\* C32 (as claimed): no envelope that host's send_msg enqueued for "bob"
\* reaches a node other than bob; host sends to no one else, so carol's
\* store stays empty.
C32_NoMisdelivery ==
    /\ Unread(nodes["carol"].nd) = {}
    /\ Unread(nodes["host"].nd) = {}

\* ------------------------------------------------------------ the name "ALL"
\* C33 (as claimed): whatever the peer map holds, send_msg("ALL", ...)
\* returns True and appends the envelope to the list pending for the
\* broadcast address 255.
C33_AllIsBroadcast ==
    \A id \in ReuseIds :
        nodes[id].nd.sock = "open" =>
            LET nd == nodes[id].nd
                r == send_msg(nd, "ALL", "x", 1, FALSE)
            IN  /\ r.ret
                /\ Pending(r.nd, ALL_CLIENTS) =
                       Append(Pending(nd, ALL_CLIENTS),
                              [title |-> "x", content |-> 1, queue |-> FALSE])

\* ------------------------------------------------------- a second AUTH frame
\* C34 (as claimed): whatever frame an authenticated client sends, an AUTH
\* frame included, its record keeps the group, name and address it was
\* given.
C34_IdentityAssignedOnce ==
    \A i \in Places, f \in ClientFrames :
        clients[i].group # "" =>
            LET post == _process_frame(HandlerAt(i), f, now)
            IN  /\ Cur(post).group = clients[i].group
                /\ Cur(post).name = clients[i].name
                /\ Cur(post).addr = clients[i].addr

\* --------------------------------------------- connect() on a used NetNode
\* connect() may be called again on a NetNode whose earlier call has
\* returned: it binds a new socket to self.socket, which closes the old
\* connection with whatever was in flight on it, and touches no field but
\* name, socket and, through process_send, outBuf and heartBeatTime.  The
\* call record carries `seen`: a PEERS frame was read from the socket this
\* call opened.
HasPeersFrame(frames) ==
    \E k \in DOMAIN frames : frames[k].type = FRAME_TYPE_PEERS

A_Connect ==
    /\ call.pc \in {"idle", "done"}
    /\ now + CONNECT_TIMEOUT <= MaxWaitTime
    /\ \E name \in ReqNames : \E group \in WaitGroups : \E wait \in BOOLEAN :
           LET r == connect(node, name, group, now)
           IN  /\ node' = r.nd
               /\ wire' = [syn |-> TRUE, up |-> r.sent, down |-> <<>>]
               /\ call' = IF wait
                          THEN [pc |-> "poll", wait |-> TRUE,
                                end_time |-> now + CONNECT_TIMEOUT, ret |-> FALSE,
                                seen |-> FALSE]
                          ELSE [pc |-> "done", wait |-> FALSE, end_time |-> 0,
                                ret |-> TRUE, seen |-> FALSE]
    /\ UNCHANGED <<clients, now, app, server, nodes, codec>>

\* loop(): the socket of the node's earlier connection is readable and recv
\* gives b'': the node has closed it.
A_Eof ==
    /\ wire.syn
    /\ Len(clients) = 1
    /\ clients' = _service_read(clients, 1, [kind |-> "eof", frames |-> <<>>], now).clients
    /\ UNCHANGED <<now, node, wire, app, server, nodes, call, codec>>

\* loop(): the listening socket is ready with the node's new connection.
A_Accept ==
    /\ wire.syn
    /\ clients = <<>>
    /\ clients' = Append(clients, NewClient(now))
    /\ wire' = [wire EXCEPT !.syn = FALSE]
    /\ UNCHANGED <<now, node, app, server, nodes, call, codec>>

\* loop(): the accepted connection is readable; recv takes the first n frames.
A_Service ==
    /\ ~wire.syn
    /\ Len(clients) = 1
    /\ \E n \in 1..Len(wire.up) :
           LET H == _service_read(clients, 1,
                                  [kind |-> "data", frames |-> SubSeq(wire.up, 1, n)], now)
               out == IF Len(H.clients) = 1 THEN H.clients[1].outb ELSE <<>>
           IN  /\ clients' = _write_all(H.clients, [k \in 1..Len(H.clients) |-> "all"])
               /\ wire' = [wire EXCEPT !.up = SubSeq(@, n + 1, Len(@)),
                                       !.down = @ \o out]
    /\ UNCHANGED <<now, node, app, server, nodes, call, codec>>

\* One round of the loop of _wait_for_connection on the socket of this call.
A_Poll ==
    /\ call.pc = "poll"
    /\ LET r == _wait_for_connection(node, call, now, wire.down)
       IN  /\ node' = r.nd
           /\ call' = [r.call EXCEPT !.seen =
                          IF now < call.end_time /\ HasPeersFrame(wire.down)
                          THEN TRUE ELSE @]
           /\ wire' = IF now < call.end_time THEN [wire EXCEPT !.down = <<>>] ELSE wire
    /\ UNCHANGED <<clients, now, app, server, nodes, codec>>

NextAgain ==
    \/ A_Connect \/ A_Eof \/ A_Accept \/ A_Service
    \/ A_Poll \/ W_Sleep \/ W_Tick

SpecAgain == Init /\ [][NextAgain]_vars

\* C35 (as claimed): a connect(wait=True) that has returned True has read a
\* PEERS frame from the socket it opened, also on a NetNode that was
\* connected before.
C35_SuccessNeedsOwnPeers ==
    (call.pc = "done" /\ call.wait /\ call.ret) => call.seen
====
